---------------------------- MODULE Spec2Model ----------------------------
(*
  A model of imake (src/src/main.rs): the makefile evaluator.

  Text is a sequence of one-character strings, so that trimming, word
  splitting and `$` expansion are computed the way the source computes them.
  A name (of a variable, a target, a file) is a text.

  Two phases of the program are modelled, each with its own specification:
    SpecParse  process_lines / parse_line over the lines of one makefile
    Spec       state_machine / process_target over the parsed rules
*)
EXTENDS Integers, Sequences, FiniteSets, TLC

VARIABLES
    state,        \* struct State: flags, rules, phony, silent_targets, processed, ...
    vars,         \* the HashMap<String, Var> handed to state_machine / process_lines
    env,          \* the process environment (std::env), written by Var::sync_env
    fs,           \* the file system: modification time of each file, 0 = no such file
    stack,        \* the activation records of process_target, innermost last
    ti,           \* state_machine: index of the requested target being processed
    exit_code,    \* -1 while the process runs, else the code it ended with
    log,          \* what the process did, in order: bodies entered, commands launched, messages
    run,          \* number of the current invocation of the program (1, 2, ...)
    mutated,      \* a recipe command has changed the file system since the first invocation began
    in_false,     \* process_lines: depth of skipped conditionals
    found_true,   \* process_lines: the flag set by an `else` met while processing
    nread,        \* number of lines read by process_lines
    blocks,       \* history: the conditional blocks open in the input, outermost first
    last_line,    \* history: the line read last, whether it was processed, whether it was to be
    cmdline,      \* history: the NAME=VALUE arguments of the command line
    assigned,     \* history: per variable, the flavor and text the last assignment applied asks for
    makefile,     \* input: the lines the makefile read by process_lines is made of
    eof,          \* process_lines: the end of the makefile was met
    file,         \* read_logical_line: the physical lines the BufReader has not handed out yet
    logical       \* history: the logical lines read_logical_line returned, in order

parse_vars ==
    <<in_false, found_true, nread, blocks, last_line, cmdline, assigned, makefile, eof, file,
      logical>>

vars_all == <<state, vars, env, fs, stack, ti, exit_code, log, run, mutated, parse_vars>>

-----------------------------------------------------------------------------
(* Bounds of the model *)

\* File modification times are 1..MaxTime; MaxTime is the present
MaxTime == 2
\* Rule lines of a makefile whose rule graph is varied
MaxBlocks == 2
\* Lines of a makefile read by process_lines
MaxLines == 6
\* Lines of a makefile of assignments and export directives read by process_lines
MaxDirectives == 4
\* Physical lines of a makefile read by read_logical_line
MaxPhysical == 3
\* The largest index handed to wordlist
MaxIndex == 3

-----------------------------------------------------------------------------
(* Text *)

IsSpace(c) == c \in {" ", "\t", "\n"}

RECURSIVE TrimStart(_)
TrimStart(s) ==
    IF s # <<>> /\ IsSpace(Head(s)) THEN TrimStart(Tail(s)) ELSE s

RECURSIVE TrimEnd(_)
TrimEnd(s) ==
    IF s # <<>> /\ IsSpace(s[Len(s)]) THEN TrimEnd(SubSeq(s, 1, Len(s) - 1)) ELSE s

\* str::trim
Trim(s) == TrimEnd(TrimStart(s))

\* str::starts_with for a one-character pattern
StartsWithChar(s, c) == s # <<>> /\ Head(s) = c

RECURSIVE SplitFrom(_, _, _)
SplitFrom(s, word, acc) ==
    IF s = <<>> THEN (IF word = <<>> THEN acc ELSE Append(acc, word))
    ELSE IF IsSpace(Head(s))
         THEN SplitFrom(Tail(s), <<>>, IF word = <<>> THEN acc ELSE Append(acc, word))
         ELSE SplitFrom(Tail(s), Append(word, Head(s)), acc)

\* str::split_whitespace, collected
SplitWhitespace(s) == SplitFrom(s, <<>>, <<>>)

\* str::starts_with
StartsWith(s, pre) == Len(s) >= Len(pre) /\ SubSeq(s, 1, Len(pre)) = pre

\* &s[n..]
From(s, n) == SubSeq(s, n + 1, Len(s))

\* str::split(c): the pieces between the occurrences of c, empty ones included
RECURSIVE SplitOn(_, _, _, _)
SplitOn(s, c, piece, acc) ==
    IF s = <<>> THEN Append(acc, piece)
    ELSE IF Head(s) = c THEN SplitOn(Tail(s), c, <<>>, Append(acc, piece))
    ELSE SplitOn(Tail(s), c, Append(piece, Head(s)), acc)

\* str::split_once(pat): the text before and after the first occurrence of pat
RECURSIVE SplitOnce(_, _, _)
SplitOnce(s, pat, before) ==
    IF Len(s) < Len(pat) THEN [found |-> FALSE, before |-> before \o s, after |-> <<>>]
    ELSE IF StartsWith(s, pat)
         THEN [found |-> TRUE, before |-> before, after |-> From(s, Len(pat))]
         ELSE SplitOnce(Tail(s), pat, Append(before, Head(s)))

\* str::ends_with
EndsWith(s, post) == Len(s) >= Len(post) /\ SubSeq(s, Len(s) - Len(post) + 1, Len(s)) = post

\* Vec::contains
Contains(seq, x) == \E i \in 1..Len(seq) : seq[i] = x


-----------------------------------------------------------------------------
(* Variable cells: struct Var, without the fields only diagnostics read (loc)
   and without the name, which is the key the cell is stored under. *)

\* HashMap::insert
Put(f, k, v) == [x \in (DOMAIN f) \cup {k} |-> IF x = k THEN v ELSE f[x]]

\* HashMap::remove
Drop(f, k) == [x \in (DOMAIN f) \ {k} |-> f[x]]

EmptyMap == [x \in {} |-> <<>>]

\* Var::new, the cell it builds
NewVar(flavor, origin, value, exported) ==
    [flavor |-> flavor, origin |-> origin, value |-> value,
     exported |-> exported, unexported |-> FALSE, ex_exported |-> FALSE]

\* Var::sync_env: the environment after the cell stored under `name` is synchronised
SyncEnv(e, name, cell) ==
    IF cell.exported THEN Put(e, name, cell.value) ELSE e

\* Var::store, the cell it leaves: the value changes, flavor and origin stay
StoreCell(cell, value) == [cell EXCEPT !.value = value]

\* Var::append, the cell it leaves: a space, then the text without the blanks
\* around it
AppendCell(cell, value) == [cell EXCEPT !.value = (@ \o <<" ">>) \o Trim(value)]

\* Var::export, the cell it leaves
ExportCell(cell) == [cell EXCEPT !.exported = TRUE, !.ex_exported = TRUE]

\* Var::unexport, the cell it leaves
UnexportCell(cell) == [cell EXCEPT !.exported = FALSE, !.unexported = TRUE]

-----------------------------------------------------------------------------
(* Expansion: expand_simple_ng and expand_ng.  A result is [out, err]: err is
   "" when the expansion returned, "unterm" when fatal_unterm_var ended the
   process (exit code 2), "fatal" when fatal_arg_count or the test of an index
   did (exit code 2), "panic" when a slice or an unwrap failed or when the
   `$(` was never closed (the expect in the scanning loop), "overflow" when a recursive variable refers to
   itself (the recursion of Var::eval never returns). *)

Ok(text) == [out |-> text, err |-> ""]
Failed(e) == [out |-> <<>>, err |-> e]

\* expand_ng, the scanning loop: the text between `$(` and its closing delimiter.
\* delims is delim_stack, innermost last.
RECURSIVE ScanRef(_, _, _)
ScanRef(src, delims, arg) ==
    IF src = <<>> THEN [arg |-> arg, rest |-> <<>>, err |-> "panic"]
    ELSE LET c == Head(src)
             top == delims[Len(delims)]
             popped == SubSeq(delims, 1, Len(delims) - 1)
         IN  IF (c = ")" /\ top = "(") \/ (c = "}" /\ top = "{")
             THEN IF popped = <<>>
                  THEN [arg |-> arg, rest |-> Tail(src), err |-> ""]
                  ELSE ScanRef(Tail(src), popped, Append(arg, c))
             ELSE IF (c = "}" /\ top = "(") \/ (c = ")" /\ top = "{")
             THEN [arg |-> arg, rest |-> Tail(src), err |-> "unterm"]
             ELSE IF c \in {"(", "{"}
             THEN ScanRef(Tail(src), Append(delims, c), Append(arg, c))
             ELSE ScanRef(Tail(src), delims, Append(arg, c))

\* The deepest nesting of recursive variables that can return: one level per
\* variable of the store; a deeper nesting repeats a variable and never returns.
EvalDepth(vs) == Cardinality(DOMAIN vs) + 1

\* A reference that yields the text stored in the cell as it is
EvalVarRaw(vs, name, fuel) ==
    IF name \notin DOMAIN vs THEN Ok(<<>>) ELSE Ok(vs[name].value)

kw_subst == <<"s", "u", "b", "s", "t">>
kw_wordlist == <<"w", "o", "r", "d", "l", "i", "s", "t">>
kw_patsubst == <<"p", "a", "t", "s", "u", "b", "s", "t">>

\* expand_ng, the scanning loop: the position in arg of the first space met
\* with one delimiter open (`' ' if delim_stack.len() == 1 && !had_space`),
\* 0 when there is none
RECURSIVE FirstSpace(_, _, _)
FirstSpace(arg, i, depth) ==
    IF i > Len(arg) THEN 0
    ELSE IF arg[i] = " " /\ depth = 0 THEN i
    ELSE FirstSpace(arg, i + 1,
                    IF arg[i] \in {"(", "{"} THEN depth + 1
                    ELSE IF arg[i] \in {")", "}"} THEN depth - 1
                    ELSE depth)

\* get_all_args: [args, err]; err is "panic" when a closing delimiter is met
\* with none open (the unwrap in the guard of the first arms)
RECURSIVE GetAllArgs(_, _, _, _)
GetAllArgs(src, delim_stack, buf, args) ==
    IF src = <<>> THEN [args |-> Append(args, buf), err |-> ""]
    ELSE IF Head(src) \in {")", "}"}
    THEN IF delim_stack = <<>> THEN [args |-> args, err |-> "panic"]
         ELSE IF (Head(src) = ")") = (delim_stack[Len(delim_stack)] = "(")
         THEN GetAllArgs(Tail(src), SubSeq(delim_stack, 1, Len(delim_stack) - 1),
                         Append(buf, Head(src)), args)
         ELSE [args |-> args, err |-> "unterm"]
    ELSE IF Head(src) \in {"(", "{"}
    THEN GetAllArgs(Tail(src), Append(delim_stack, Head(src)), Append(buf, Head(src)), args)
    ELSE IF Head(src) = "," /\ delim_stack = <<>>
    THEN GetAllArgs(Tail(src), delim_stack, <<>>, Append(args, buf))
    ELSE GetAllArgs(Tail(src), delim_stack, Append(buf, Head(src)), args)

\* str::replace with an empty pattern: `to` after every character
RECURSIVE Interleave(_, _)
Interleave(text, to) ==
    IF text = <<>> THEN <<>> ELSE (<<Head(text)>> \o to) \o Interleave(Tail(text), to)

\* str::replace: every occurrence of `from`, left to right, none overlapping
RECURSIVE Replace(_, _, _)
Replace(text, from, to) ==
    IF from = <<>> THEN to \o Interleave(text, to)
    ELSE IF text = <<>> THEN <<>>
    ELSE IF StartsWith(text, from) THEN to \o Replace(From(text, Len(from)), from, to)
    ELSE <<Head(text)>> \o Replace(Tail(text), from, to)

\* str::parse::<usize>: the number written, -1 when parse returns Err.  The
\* texts parsed are short: the overflow of usize is not met.
ParseUsize(s) ==
    LET digits == <<"0", "1", "2", "3", "4", "5", "6", "7", "8", "9">>
        d == IF StartsWithChar(s, "+") THEN Tail(s) ELSE s
        val[i \in 0..Len(d)] ==
            IF i = 0 THEN 0
            ELSE 10 * val[i - 1] + (CHOOSE k \in 1..10 : digits[k] = d[i]) - 1
    IN  IF d = <<>> \/ \E i \in 1..Len(d) : ~Contains(digits, d[i]) THEN -1
        ELSE val[Len(d)]

\* expand_ng, SubType::Subst once its three pieces are expanded
SubstOf(from, to, text) ==
    IF from.err # "" THEN Failed(from.err)
    ELSE IF to.err # "" THEN Failed(to.err)
    ELSE IF text.err # "" THEN Failed(text.err)
    ELSE Ok(Replace(text.out, from.out, to.out))

\* expand_ng, SubType::PatSubst with a `%` in the pattern: what one word adds
\* to `out`.  pat and split are the pattern and the replacement cut at `%`.
PercentWord(v, pat, split, rhs) ==
    IF /\ Len(v) >= Len(pat.before) + Len(pat.after)
       /\ StartsWith(v, pat.before) /\ EndsWith(v, pat.after)
    THEN (IF split.found
          THEN (split.before \o SubSeq(v, Len(pat.before) + 1, Len(v) - Len(pat.after)))
               \o split.after
          ELSE rhs) \o <<" ">>
    ELSE <<>>

\* expand_ng, SubType::PatSubst: the loops over the words, from word i on
RECURSIVE PatSubstWords(_, _, _, _)
PatSubstWords(words, i, lhs, rhs) ==
    IF i > Len(words) THEN <<>>
    ELSE (IF Contains(lhs, "%")
          THEN PercentWord(words[i], SplitOnce(lhs, <<"%">>, <<>>),
                           SplitOnce(rhs, <<"%">>, <<>>), rhs)
          ELSE (IF words[i] = lhs THEN rhs ELSE words[i]) \o <<" ">>)
         \o PatSubstWords(words, i + 1, lhs, rhs)

\* String::pop
Pop(s) == IF s = <<>> THEN <<>> ELSE SubSeq(s, 1, Len(s) - 1)

\* expand_ng, SubType::PatSubst once its three arguments are expanded
PatSubstOf(lhs, rhs, v) ==
    IF lhs.err # "" THEN Failed(lhs.err)
    ELSE IF rhs.err # "" THEN Failed(rhs.err)
    ELSE IF v.err # "" THEN Failed(v.err)
    ELSE Ok(Pop(PatSubstWords(SplitWhitespace(v.out), 1, lhs.out, rhs.out)))

\* expand_ng, SubType::WordList once its three arguments are expanded
WordListOf(a0, a1, a2) ==
    IF a0.err # "" THEN Failed(a0.err)
    ELSE IF a1.err # "" THEN Failed(a1.err)
    ELSE IF a2.err # "" THEN Failed(a2.err)
    ELSE LET n == ParseUsize(Trim(a0.out))
             e == ParseUsize(Trim(a1.out))
             words == SplitWhitespace(a2.out)
             lo == IF n - 1 < Len(words) THEN n - 1 ELSE Len(words)
             hi == IF e < Len(words) THEN e ELSE Len(words)
             out[i \in lo..hi] ==
                 IF i = lo THEN <<>> ELSE (out[i - 1] \o words[i]) \o <<" ">>
         IN  IF n < 0 \/ e < 0 \/ n = 0 THEN Failed("fatal")
             ELSE IF lo > hi THEN Failed("panic")
             ELSE Ok(out[hi])

\* usize::to_string, for the numbers below one hundred
ToText(k) ==
    LET d == <<"0", "1", "2", "3", "4", "5", "6", "7", "8", "9">>
    IN  IF k < 10 THEN <<d[k + 1]>> ELSE <<d[(k \div 10) + 1], d[(k % 10) + 1]>>

\* expand_ng, SubType::ForEach: the text of one turn of the loop, the space
\* pushed after it, and the text of the turns that follow
LoopStep(x, space, more) ==
    IF x.err # "" THEN Failed(x.err)
    ELSE IF more.err # "" THEN Failed(more.err)
    ELSE Ok((x.out \o space) \o more.out)

RECURSIVE ExpandFrom(_, _, _)
RECURSIVE ExpandNg(_, _, _)
RECURSIVE EvalVar(_, _, _)
RECURSIVE Piece(_, _, _, _)
RECURSIVE Subst(_, _, _)
RECURSIVE WordList(_, _, _)
RECURSIVE WordListArgs(_, _, _)
RECURSIVE PatSubst(_, _, _)
RECURSIVE PatSubstArgs(_, _, _)
RECURSIVE BindArgs(_, _, _, _)
RECURSIVE BoundArg(_, _, _, _, _)
RECURSIVE CallIn(_, _, _, _)
RECURSIVE CallFunction(_, _, _)
RECURSIVE Loop(_, _, _, _, _, _)
RECURSIVE ForEachOf(_, _, _, _, _)
RECURSIVE ForEach(_, _, _)
RECURSIVE Function(_, _, _, _)
RECURSIVE Named(_, _, _)
RECURSIVE Scanned(_, _, _)

\* The result of an expansion and the text left after the reference
LeftWith(v, rest) == [out |-> v.out, err |-> v.err, rest |-> rest]

\* Var::eval of the cell stored under `name`, the empty text when there is none
EvalVar(vs, name, fuel) ==
    IF name \notin DOMAIN vs THEN Ok(<<>>)
    ELSE IF vs[name].flavor = "Recursive"
         THEN IF fuel = 0 THEN Failed("overflow")
              ELSE ExpandFrom(vs, vs[name].value, fuel - 1)
         ELSE Ok(vs[name].value)

\* expand_ng, `args.next().unwrap()` and the expansion of the piece
Piece(vs, args, i, fuel) ==
    IF i > Len(args) THEN Failed("panic") ELSE ExpandFrom(vs, args[i], fuel)

\* expand_ng, SubType::Subst: the argument is cut at every comma
Subst(vs, arg, fuel) ==
    SubstOf(Piece(vs, SplitOn(arg, ",", <<>>, <<>>), 1, fuel),
            Piece(vs, SplitOn(arg, ",", <<>>, <<>>), 2, fuel),
            Piece(vs, SplitOn(arg, ",", <<>>, <<>>), 3, fuel))

\* expand_ng, SubType::WordList: get_args::<3>, then the three expansions
WordList(vs, arg, fuel) == WordListArgs(vs, GetAllArgs(arg, <<>>, <<>>, <<>>), fuel)

WordListArgs(vs, ga, fuel) ==
    IF ga.err # "" THEN Failed(ga.err)
    ELSE IF Len(ga.args) < 3 THEN Failed("fatal")
    ELSE WordListOf(ExpandFrom(vs, ga.args[1], fuel),
                    ExpandFrom(vs, ga.args[2], fuel),
                    ExpandFrom(vs, ga.args[3], fuel))

\* expand_ng, SubType::PatSubst: get_args::<3>, then the three expansions
PatSubst(vs, arg, fuel) == PatSubstArgs(vs, GetAllArgs(arg, <<>>, <<>>, <<>>), fuel)

PatSubstArgs(vs, ga, fuel) ==
    IF ga.err # "" THEN Failed(ga.err)
    ELSE IF Len(ga.args) < 3 THEN Failed("fatal")
    ELSE PatSubstOf(ExpandFrom(vs, Trim(ga.args[1]), fuel),
                    ExpandFrom(vs, Trim(ga.args[2]), fuel),
                    ExpandFrom(vs, Trim(ga.args[3]), fuel))

\* expand_ng, SubType::Call, the loop over the arguments that follow the
\* name: args[i] is expanded in the copy of the variables, where the arguments
\* before it are bound already, and bound to i - 1; [vars, err]
BindArgs(vs, args, i, fuel) ==
    IF i > Len(args) THEN [vars |-> vs, err |-> ""]
    ELSE BoundArg(vs, args, i, ExpandFrom(vs, args[i], fuel), fuel)

BoundArg(vs, args, i, x, fuel) ==
    IF x.err # "" THEN [vars |-> vs, err |-> x.err]
    ELSE BindArgs(Put(vs, ToText(i - 1), NewVar("Simple", "File", x.out, FALSE)),
                  args, i + 1, fuel)

\* expand_ng, SubType::Call once name and arguments were expanded: the numbers
\* from highest on are removed from the copy, the variable is evaluated in it
CallIn(b, name, highest, fuel) ==
    IF name.err # "" THEN Failed(name.err)
    ELSE IF b.err # "" THEN Failed(b.err)
    ELSE EvalVar([x \in DOMAIN b.vars \ { ToText(k) : k \in highest..99 } |-> b.vars[x]],
                 name.out, fuel)

\* expand_ng, SubType::Call
CallFunction(vs, arg, fuel) ==
    LET ga == GetAllArgs(arg, <<>>, <<>>, <<>>)
    IN  IF ga.err # "" THEN Failed(ga.err)
        ELSE CallIn(BindArgs(vs, ga.args, 2, fuel),
                    ExpandFrom(vs, Trim(ga.args[1]), fuel),
                    IF Len(ga.args) = 1 THEN 0 ELSE Len(ga.args), fuel)

\* expand_ng, SubType::ForEach, the loop over the words: each turn binds the
\* variable in the copy and expands the body in it.  The space pushed by the
\* last turn is the one `out.pop()` drops after the loop.
Loop(vs, name, words, i, body, fuel) ==
    IF i > Len(words) THEN Ok(<<>>)
    ELSE LoopStep(ExpandFrom(Put(vs, name, NewVar("Simple", "File", words[i], FALSE)),
                             body, fuel),
                  IF i = Len(words) THEN <<>> ELSE <<" ">>,
                  Loop(vs, name, words, i + 1, body, fuel))

\* expand_ng, SubType::ForEach once the variable and the list were expanded
ForEachOf(vs, v, list, body, fuel) ==
    IF v.err # "" THEN Failed(v.err)
    ELSE IF list.err # "" THEN Failed(list.err)
    ELSE Loop(vs, Trim(v.out), SplitWhitespace(list.out), 1, body, fuel)

\* expand_ng, SubType::ForEach: get_args::<3>
ForEach(vs, arg, fuel) ==
    LET ga == GetAllArgs(arg, <<>>, <<>>, <<>>)
    IN  IF ga.err # "" THEN Failed(ga.err)
        ELSE IF Len(ga.args) < 3 THEN Failed("fatal")
        ELSE ForEachOf(vs, ExpandFrom(vs, ga.args[1], fuel), ExpandFrom(vs, ga.args[2], fuel),
                       ga.args[3], fuel)

\* expand_ng, `match func`: arg is the text between the delimiters, sp the
\* position of its first space with one delimiter open.  Of the functions,
\* subst, wordlist, call, foreach and patsubst are modelled; the inputs name no other.
Function(vs, arg, sp, fuel) ==
    IF sp > 0 /\ Trim(SubSeq(arg, 1, sp)) = kw_subst
    THEN Subst(vs, From(arg, sp), fuel)
    ELSE IF sp > 0 /\ Trim(SubSeq(arg, 1, sp)) = kw_wordlist
    THEN WordList(vs, From(arg, sp), fuel)
    ELSE IF sp > 0 /\ Trim(SubSeq(arg, 1, sp)) = <<"c", "a", "l", "l">>
    THEN CallFunction(vs, From(arg, sp), fuel)
    ELSE IF sp > 0 /\ Trim(SubSeq(arg, 1, sp)) = <<"f", "o", "r", "e", "a", "c", "h">>
    THEN ForEach(vs, From(arg, sp), fuel)
    ELSE IF sp > 0 /\ Trim(SubSeq(arg, 1, sp)) = kw_patsubst
    THEN PatSubst(vs, From(arg, sp), fuel)
    ELSE Named(vs, ExpandFrom(vs, Trim(arg), fuel), fuel)

\* expand_ng, SubType::Var once the name was expanded
Named(vs, name, fuel) ==
    IF name.err # "" THEN Failed(name.err) ELSE EvalVar(vs, name.out, fuel)

\* expand_ng: src is the text after a `$`; the result carries the text left over
ExpandNg(vs, src, fuel) ==
    IF src = <<>> THEN [out |-> <<"$">>, err |-> "", rest |-> <<>>]
    ELSE IF Head(src) = "$" THEN [out |-> <<"$">>, err |-> "", rest |-> Tail(src)]
    ELSE IF Head(src) \in {"(", "{"}
    THEN Scanned(vs, ScanRef(Tail(src), <<Head(src)>>, <<>>), fuel)
    ELSE LeftWith(EvalVar(vs, <<Head(src)>>, fuel), Tail(src))

\* expand_ng once the scanning loop has met the closing delimiter or failed
Scanned(vs, sc, fuel) ==
    IF sc.err # "" THEN [out |-> <<>>, err |-> sc.err, rest |-> sc.rest]
    ELSE LeftWith(Function(vs, sc.arg, FirstSpace(sc.arg, 1, 0), fuel), sc.rest)

\* expand_simple_ng, the loop over the characters of the input
ExpandFrom(vs, input, fuel) ==
    IF input = <<>> THEN Ok(<<>>)
    ELSE IF Head(input) = "$"
    THEN LET r == ExpandNg(vs, Tail(input), fuel)
         IN  IF r.err # "" THEN Failed(r.err)
             ELSE LET more == ExpandFrom(vs, r.rest, fuel)
                  IN  IF more.err # "" THEN more ELSE Ok(r.out \o more.out)
    ELSE LET more == ExpandFrom(vs, Tail(input), fuel)
         IN  IF more.err # "" THEN more ELSE Ok(<<Head(input)>> \o more.out)

\* expand_simple_ng
ExpandSimple(vs, input) == ExpandFrom(vs, input, EvalDepth(vs))

-----------------------------------------------------------------------------
(* Rules: struct Rule with enum RuleData.  A fragment is
   [targets, kind, double, text, lhs, line]: kind "Prereq" carries the
   double-colon flag and the prerequisite text, kind "Recipie" the recipe
   text, kind "Var" the name (lhs) and value (text) of a target-scoped
   assignment; line is Location.line. *)

PrereqRule(targets, double, text, line) ==
    [targets |-> targets, kind |-> "Prereq", double |-> double, text |-> text,
     lhs |-> <<>>, line |-> line]

RecipieRule(targets, text, line) ==
    [targets |-> targets, kind |-> "Recipie", double |-> FALSE, text |-> text,
     lhs |-> <<>>, line |-> line]

VarRule(targets, lhs, text, line) ==
    [targets |-> targets, kind |-> "Var", double |-> FALSE, text |-> text,
     lhs |-> lhs, line |-> line]

\* process_target, the accumulators before the loop over state.rules
CollectInit ==
    [found_rules |-> FALSE, vars |-> EmptyMap, prerequisites |-> <<>>,
     recipies |-> <<>>, prereqs_value |-> <<>>,
     was_prereq |-> FALSE, was_recipies |-> FALSE,
     was_single |-> FALSE, was_double |-> FALSE, fatal |-> "", fatal_line |-> 0]

\* Var::append on the text of a cell
AppendText(value, text) == value \o <<" ">> \o Trim(text)

\* process_target, the arm of the loop for a Prereq fragment
CollectPrereq(acc, rule) ==
    IF (rule.double /\ acc.was_single) \/ (~rule.double /\ acc.was_double)
    THEN [acc EXCEPT !.found_rules = TRUE, !.fatal = "mixed", !.fatal_line = rule.line]
    ELSE [acc EXCEPT !.found_rules = TRUE,
                     !.was_double = acc.was_double \/ rule.double,
                     !.was_single = acc.was_single \/ ~rule.double,
                     !.prereqs_value = AppendText(acc.prereqs_value, rule.text),
                     !.prerequisites = acc.prerequisites \o SplitWhitespace(rule.text),
                     !.was_prereq = TRUE,
                     !.was_recipies = FALSE]

\* process_target, the arm of the loop for a Recipie fragment
CollectRecipie(acc, rule) ==
    IF acc.recipies # <<>> /\ ~acc.was_recipies /\ ~acc.was_prereq
    THEN [acc EXCEPT !.found_rules = TRUE, !.fatal = "panic", !.fatal_line = rule.line]
    ELSE LET kept == IF acc.recipies # <<>> /\ ~acc.was_recipies /\ ~acc.was_double
                     THEN <<>> ELSE acc.recipies
         IN  [acc EXCEPT !.found_rules = TRUE,
                         !.was_recipies = TRUE,
                         !.was_prereq = FALSE,
                         !.recipies = Append(kept, [line |-> rule.line, text |-> rule.text])]

\* process_target, the arm of the loop for a Var fragment
CollectVar(acc, rule) ==
    [acc EXCEPT !.found_rules = TRUE,
                !.vars = Put(acc.vars, rule.lhs, rule.text),
                !.was_prereq = FALSE,
                !.was_recipies = FALSE]

\* process_target, the loop over state.rules from fragment i on
RECURSIVE CollectFrom(_, _, _, _)
CollectFrom(rules, name, i, acc) ==
    IF i > Len(rules) \/ acc.fatal # "" THEN acc
    ELSE IF ~Contains(rules[i].targets, name) THEN CollectFrom(rules, name, i + 1, acc)
    ELSE CollectFrom(rules, name, i + 1,
             CASE rules[i].kind = "Var" -> CollectVar(acc, rules[i])
               [] rules[i].kind = "Prereq" -> CollectPrereq(acc, rules[i])
               [] rules[i].kind = "Recipie" -> CollectRecipie(acc, rules[i]))

CollectRules(rules, name) == CollectFrom(rules, name, 1, CollectInit)

\* Variant of Exists: every name the file system knows counts as a file
ExistsWhenKnown(files, name) == name \in DOMAIN files

\* Path::metadata().modified() is Ok
Exists(files, name) == name \in DOMAIN files /\ files[name] > 0

\* Variant of PrereqForces: a prerequisite as old as the target forces too
PrereqForcesOrEqual(files, p, time) ==
    IF files[p] > 0 THEN files[p] >= time ELSE TRUE

\* process_target: is prerequisite p newer than a target file modified at `time`,
\* or missing
PrereqForces(files, p, time) ==
    IF Exists(files, p) THEN files[p] > time ELSE TRUE

\* process_target, the computation of needs_updating
NeedsUpdating(st, files, name, prerequisites) ==
    IF Contains(st.phony, name) THEN TRUE
    ELSE IF Exists(files, name)
         THEN \E i \in 1..Len(prerequisites) :
                  \/ Contains(st.phony, prerequisites[i])
                  \/ PrereqForces(files, prerequisites[i], files[name])
         ELSE TRUE

\* process_target: found_rules after the computation of needs_updating
FoundRules(st, files, name, prerequisites, found) ==
    \/ found
    \/ /\ ~Contains(st.phony, name)
       /\ Exists(files, name)
       /\ \E i \in 1..Len(prerequisites) : Contains(st.phony, prerequisites[i])

\* process_target: the recipes expanded, trimmed, the empty ones dropped.
\* The result is [cmds, err].
RECURSIVE ExpandRecipies(_, _, _, _)
ExpandRecipies(vs, recipies, i, acc) ==
    IF i > Len(recipies) THEN [cmds |-> acc, err |-> ""]
    ELSE LET r == ExpandSimple(vs, recipies[i].text)
             cmd == Trim(r.out)
         IN  IF r.err # "" THEN [cmds |-> acc, err |-> r.err]
             ELSE ExpandRecipies(vs, recipies, i + 1,
                      IF cmd = <<>> THEN acc
                      ELSE Append(acc, [line |-> recipies[i].line, text |-> cmd]))

\* The exit code of the process when an expansion does not return
ErrCode(err) ==
    CASE err = "unterm" -> 2
      [] err = "fatal" -> 2
      [] err = "panic" -> 101
      [] err = "overflow" -> 134

\* Variant of IgnoresErrors: only the flag counts, the `-` prefix does not
IgnoresErrorsByFlag(st, cmd) == st.ignore_errors

\* process_target: the `-` prefix of a command and state.ignore_errors
IgnoresErrors(st, cmd) ==
    IF StartsWithChar(cmd, "-") THEN TRUE ELSE st.ignore_errors

\* process_target: the command after the `-` prefix is removed
AfterDash(cmd) == IF StartsWithChar(cmd, "-") THEN Tail(cmd) ELSE cmd

\* process_target: the command handed to the shell
ShellCommand(cmd) ==
    IF StartsWithChar(AfterDash(cmd), "@") THEN Tail(AfterDash(cmd)) ELSE AfterDash(cmd)

\* process_target: is the command printed before it is launched
Echoed(st, name, cmd) ==
    LET silent == Contains(st.silent_targets, name) \/ StartsWithChar(AfterDash(cmd), "@")
    IN  (~silent \/ st.dryrun) /\ ~st.silent

\* select_targets, the text of the first target of a fragment
FirstTarget(rule) == IF rule.targets = <<>> THEN <<>> ELSE rule.targets[1]

\* select_targets, the loop over state.rules
RECURSIVE SelectFrom(_, _, _, _)
SelectFrom(rules, vs, i, best) ==
    IF i > Len(rules) THEN best
    ELSE IF rules[i].kind = "Prereq" /\ FirstTarget(rules[i]) = <<".", "D", "E", "F", "A", "U", "L", "T">>
         THEN SelectFrom(rules, vs, i + 1, SplitWhitespace(ExpandSimple(vs, rules[i].text).out))
         ELSE IF StartsWithChar(FirstTarget(rules[i]), ".")
              THEN SelectFrom(rules, vs, i + 1, best)
              ELSE SelectFrom(rules, vs, i + 1,
                       IF best = <<>> THEN <<FirstTarget(rules[i])>> ELSE best)

SelectTargets(rules, vs) == SelectFrom(rules, vs, 1, <<>>)

\* state_machine: the targets the loop runs over
TargetsToMake ==
    IF state.targets_to_make = <<>> THEN SelectTargets(state.rules, vars)
    ELSE state.targets_to_make

-----------------------------------------------------------------------------
(* The scheduler: state_machine and process_target.  The recursion of
   process_target is the sequence `stack` of its activation records
   [name, vars, prerequisites, recipies, found_rules, done_smth, pi, pc,
    expanded, ci]: pc is "prereqs" in the loop over the prerequisites (pi the
   next one) and "run" in the loop over the expanded commands (ci the next
   one). *)

Event(ev, t, k) == [run |-> run, ev |-> ev, t |-> t, k |-> k]

Some(done_smth, has_recipies) ==
    [some |-> TRUE, done_smth |-> done_smth, has_recipies |-> has_recipies]
None == [some |-> FALSE, done_smth |-> FALSE, has_recipies |-> FALSE]

Top == stack[Len(stack)]
Running == exit_code = -1

\* std::process::exit and a panic: the process is gone
Exit(code, lg) ==
    /\ exit_code' = code
    /\ stack' = <<>>
    /\ log' = lg
    /\ ti' = ti

\* state_machine, the body of the loop over the requested targets after
\* process_target(t) returned rv
TopMessage(t, rv) ==
    IF rv.some
    THEN IF ~state.silent /\ ~rv.done_smth
         THEN IF Contains(state.phony, t) \/ ~rv.has_recipies
              THEN <<Event("nothing_to_be_done", t, 0)>>
              ELSE <<Event("up_to_date", t, 0)>>
         ELSE <<>>
    ELSE <<Event("no_rule", t, 0)>>

\* Variant of AfterPrereq: the loop steps over the next prerequisite
AfterPrereqSkipping(f, done) ==
    [f EXCEPT !.done_smth = f.done_smth \/ done, !.pi = f.pi + 2]

\* process_target, the end of one turn of the loop over the prerequisites:
\* done_smth is or-ed with what the prerequisite did, the loop moves on
AfterPrereq(f, done) ==
    [f EXCEPT !.done_smth = f.done_smth \/ done, !.pi = f.pi + 1]

\* Variant of AlreadyProcessed: the processed list is never consulted
NeverProcessed(st, name) == FALSE

\* process_target, the test at its entry: was the target already visited
AlreadyProcessed(st, name) == Contains(st.processed, name)

\* process_target(name) returns rv to its caller: to the loop over the
\* prerequisites of the record on top of st, or to state_machine when st is empty
ReturnTo(st, name, rv, lg) ==
    IF st = <<>>
    THEN /\ stack' = <<>>
         /\ ti' = ti + 1
         /\ exit_code' = exit_code
         /\ log' = lg \o TopMessage(name, rv)
    ELSE LET parent == st[Len(st)]
         IN  IF rv.some
             THEN /\ stack' = [st EXCEPT ![Len(st)] = AfterPrereq(parent, rv.done_smth)]
                  /\ ti' = ti
                  /\ exit_code' = exit_code
                  /\ log' = lg
             ELSE IF ~Contains(state.phony, Trim(name))
                  THEN Exit(130, Append(lg, Event("no_rule_needed_by", name, 0)))
                  ELSE /\ stack' = [st EXCEPT ![Len(st)] = AfterPrereq(parent, FALSE)]
                       /\ ti' = ti
                       /\ exit_code' = exit_code
                       /\ log' = lg

\* Variant of FrameVars: a call made from within another call keeps the `@`
\* of its caller
FrameVarsInherited(vs, name, prereqs_value) ==
    LET v1 == IF <<"@">> \in DOMAIN vs THEN vs
              ELSE Put(vs, <<"@">>, NewVar("Simple", "Automatic", name, FALSE))
        v2 == Put(v1, <<"?">>, NewVar("Simple", "Automatic", prereqs_value, FALSE))
    IN  Put(v2, <<"<">>, NewVar("Simple", "Automatic", prereqs_value, FALSE))

\* process_target, the automatic variables of the call
FrameVars(vs, name, prereqs_value) ==
    LET v1 == Put(vs, <<"@">>, NewVar("Simple", "Automatic", name, FALSE))
        v2 == Put(v1, <<"?">>, NewVar("Simple", "Automatic", prereqs_value, FALSE))
    IN  Put(v2, <<"<">>, NewVar("Simple", "Automatic", prereqs_value, FALSE))

\* process_target from its entry up to the loop over the prerequisites,
\* called with the variables vs from the stack st
Call(st, name, vs) ==
    IF AlreadyProcessed(state, name)
    THEN /\ ReturnTo(st, name, Some(FALSE, FALSE), log)
         /\ state' = state
    ELSE LET cr == CollectRules(state.rules, name)
         IN  /\ state' = [state EXCEPT !.processed = Append(state.processed, name)]
             /\ IF cr.fatal = "mixed"
                THEN Exit(2, Append(log, Event("both_colon_entries", name, cr.fatal_line)))
                ELSE IF cr.fatal = "panic"
                THEN Exit(101, log)
                ELSE /\ stack' = Append(st,
                            [name |-> name,
                             vars |-> FrameVars(vs, name, cr.prereqs_value),
                             prerequisites |-> cr.prerequisites,
                             recipies |-> cr.recipies,
                             found_rules |-> cr.found_rules,
                             done_smth |-> FALSE,
                             pi |-> 1, pc |-> "prereqs", expanded |-> <<>>, ci |-> 1])
                     /\ log' = Append(log, Event("enter", name, 0))
                     /\ ti' = ti
                     /\ exit_code' = exit_code

\* state_machine: one turn of the loop over the requested targets
NextRequested ==
    /\ Running /\ stack = <<>> /\ ti <= Len(TargetsToMake)
    /\ Call(<<>>, TargetsToMake[ti], vars)
    /\ UNCHANGED <<vars, env, fs, run, mutated, parse_vars>>

\* process_target: one turn of the loop over the prerequisites
NextPrereq ==
    /\ Running /\ stack # <<>>
    /\ Top.pc = "prereqs" /\ Top.pi <= Len(Top.prerequisites)
    /\ Call(stack, Top.prerequisites[Top.pi], Top.vars)
    /\ UNCHANGED <<vars, env, fs, run, mutated, parse_vars>>

\* process_target, from the end of the loop over the prerequisites to the
\* loop over the expanded commands
Decide ==
    /\ Running /\ stack # <<>>
    /\ Top.pc = "prereqs" /\ Top.pi > Len(Top.prerequisites)
    /\ LET f == Top
           rest == SubSeq(stack, 1, Len(stack) - 1)
           needs == NeedsUpdating(state, fs, f.name, f.prerequisites)
           found == FoundRules(state, fs, f.name, f.prerequisites, f.found_rules)
           ex == ExpandRecipies(f.vars, f.recipies, 1, <<>>)
       IN  IF ~found /\ needs
           THEN ReturnTo(rest, f.name, None, log)
           ELSE IF ~needs
           THEN ReturnTo(rest, f.name, Some(f.done_smth, FALSE), log)
           ELSE IF ex.err # ""
           THEN Exit(ErrCode(ex.err), log)
           ELSE IF ex.cmds = <<>>
           THEN ReturnTo(rest, f.name, Some(f.done_smth, FALSE), log)
           ELSE /\ stack' = [stack EXCEPT ![Len(stack)] =
                                [f EXCEPT !.pc = "run", !.expanded = ex.cmds, !.ci = 1]]
                /\ UNCHANGED <<ti, exit_code, log>>
    /\ UNCHANGED <<state, vars, env, fs, run, mutated, parse_vars>>

\* What a launched command may do to the file system: nothing, or bring the
\* file of its target up to the present time
Touched(files, name) == [files EXCEPT ![name] = MaxTime]

\* process_target: one turn of the loop over the expanded commands.  The
\* command is printed, launched under the shell and waited for; its exit
\* status and what it does to the file system are the environment's choice.
RunCommand ==
    /\ Running /\ stack # <<>>
    /\ Top.pc = "run" /\ Top.ci <= Len(Top.expanded)
    /\ LET f == Top
           rest == SubSeq(stack, 1, Len(stack) - 1)
           c == f.expanded[f.ci]
           ignore == IgnoresErrors(state, c.text)
           cmd == ShellCommand(c.text)
           echo == IF Echoed(state, f.name, c.text)
                   THEN <<Event("echo", f.name, c.line)>> ELSE <<>>
       IN  IF SplitWhitespace(cmd) = <<>>
           THEN /\ Exit(101, log \o echo)
                /\ UNCHANGED <<fs, mutated>>
           ELSE \E status \in {0, 1}, files \in {fs, Touched(fs, f.name)} :
                  LET launched == log \o echo \o <<Event("launch", f.name, c.line)>>
                  IN  /\ fs' = files
                      /\ mutated' = (mutated \/ files # fs)
                      /\ IF status # 0 /\ ~ignore /\ ~state.keep_going
                         THEN Exit(2, Append(launched, Event("error", f.name, c.line)))
                         ELSE LET lg == IF status = 0 THEN launched
                                        ELSE IF ignore
                                        THEN Append(launched, Event("error_ignored", f.name, c.line))
                                        ELSE Append(launched, Event("error", f.name, c.line))
                              IN  IF f.ci = Len(f.expanded)
                                  THEN ReturnTo(rest, f.name, Some(TRUE, TRUE), lg)
                                  ELSE /\ stack' = [stack EXCEPT ![Len(stack)] =
                                                [f EXCEPT !.ci = f.ci + 1, !.done_smth = TRUE]]
                                       /\ log' = lg
                                       /\ UNCHANGED <<ti, exit_code>>
    /\ UNCHANGED <<state, vars, env, run, parse_vars>>

\* state_machine returns Ok(()) after the loop: main ends with exit code 0
Finish ==
    /\ Running /\ stack = <<>> /\ ti > Len(TargetsToMake)
    /\ exit_code' = 0
    /\ UNCHANGED <<state, vars, env, fs, stack, ti, log, run, mutated,
                   parse_vars>>

\* The program is invoked a second time with the same command line, on the
\* same makefile and on a file system the first invocation left as it was
Rerun ==
    /\ exit_code >= 0 /\ run = 1 /\ ~mutated
    /\ run' = 2
    /\ state' = [state EXCEPT !.processed = <<>>]
    /\ stack' = <<>> /\ ti' = 1 /\ exit_code' = -1
    /\ UNCHANGED <<vars, env, fs, log, mutated, parse_vars>>

-----------------------------------------------------------------------------
(* The inputs of the scheduler: the rules process_lines left in state.rules,
   the phony names process_specials left in state.phony, the flags and
   requested targets main read from the command line, and the file system.
   Three families of inputs are explored: one varies the rule graph, one the
   files and phony names, one the recipes and the error flags. *)

A == <<"a">>
B == <<"b">>
C == <<"c">>
Files == {A, B, C}

\* a recipe line as process_lines stores it: the whole line, the leading tab included
Recipe(cmd) == <<"\t">> \o cmd

\* The fragments of one rule line followed by its recipe lines
Block(target, double, prereqs, recipes) ==
    <<PrereqRule(<<target>>, double, prereqs, 0)>>
    \o [i \in 1..Len(recipes) |-> RecipieRule(<<target>>, recipes[i], 0)]

\* Location.line of each fragment: its place in the makefile
Numbered(rules) == [i \in 1..Len(rules) |-> [rules[i] EXCEPT !.line = i]]

RECURSIVE Flatten(_)
Flatten(bs) == IF bs = <<>> THEN <<>> ELSE Head(bs) \o Flatten(Tail(bs))

\* The makefiles of at most n blocks drawn from the set bs
MakefilesOf(bs, n) ==
    { Numbered(Flatten(m)) : m \in UNION { [1..k -> bs] : k \in 0..n } }

PlainFlags ==
    [always_make |-> FALSE, silent |-> FALSE, ignore_errors |-> FALSE,
     dryrun |-> FALSE, keep_going |-> FALSE]

\* struct State after main, process_lines and process_specials
StateOf(rules, phony, flags, requested) ==
    [always_make |-> flags.always_make,
     targets_to_make |-> requested,
     silent |-> flags.silent,
     rules |-> rules,
     in_rule |-> FALSE,
     ignore_errors |-> flags.ignore_errors,
     dryrun |-> flags.dryrun,
     keep_going |-> flags.keep_going,
     phony |-> phony,
     silent_targets |-> <<>>,
     processed |-> <<>>]

\* The prerequisite texts of the rule graphs: none, two names, the target `a`
PrereqTexts ==
    { <<>>, <<"b", " ", "c">>, <<"a">> }

GraphBlocks ==
    { Block(t, d, p, <<Recipe(<<"x">>)>>) :
        t \in {A, B}, d \in BOOLEAN, p \in PrereqTexts }

GraphRequests == { <<>>, <<A, A>>, <<B, A>>, <<C>> }

\* Rule graphs of up to MaxBlocks rule lines over a, b and the source file c
InitGraphs ==
    /\ \E rules \in MakefilesOf(GraphBlocks, MaxBlocks), req \in GraphRequests :
          state = StateOf(rules, <<>>, PlainFlags, req)
    /\ fs = [f \in Files |-> IF f = C THEN 1 ELSE 0]

FileRules ==
    { Numbered(Block(A, FALSE, <<"b", " ", "c">>, <<Recipe(<<"x">>)>>)),
      Numbered(Block(A, FALSE, <<"b">>, <<Recipe(<<"x">>)>>)
               \o Block(B, FALSE, <<"c">>, <<Recipe(<<"x">>)>>)),
      Numbered(Block(A, TRUE, <<"b">>, <<Recipe(<<"x">>)>>)
               \o Block(A, TRUE, <<"c">>, <<Recipe(<<"x">>)>>)) }

RECURSIVE SeqOfSet(_)
SeqOfSet(S) ==
    IF S = {} THEN <<>>
    ELSE LET x == CHOOSE y \in S : TRUE IN <<x>> \o SeqOfSet(S \ {x})

\* The target requested: a, which has a rule, or c, which has none and is
\* requested of the makefile of one rule only
FileRequests == { <<A>>, <<C>> }

\* Every state of the three files and every set of phony names
InitFiles ==
    /\ \E rules \in FileRules, ph \in SUBSET Files, am \in BOOLEAN, req \in FileRequests :
          /\ req = <<C>> => Len(rules) = 2
          /\ state = StateOf(rules, SeqOfSet(ph), [PlainFlags EXCEPT !.always_make = am], req)
    /\ fs \in [Files -> 0..MaxTime]

RecipeLists ==
    { <<>>,
      <<Recipe(<<"x">>)>>,
      <<Recipe(<<"-", "x">>)>>,
      <<Recipe(<<"x">>), Recipe(<<"x">>)>>,
      <<Recipe(<<"-", "x">>), Recipe(<<"x">>)>>,
      <<Recipe(<<"@", "-", "x">>), Recipe(<<>>)>> }

\* Every pair of recipes for a and its prerequisite b, under every setting of
\* the error flags
InitErrors ==
    /\ \E ra \in RecipeLists, rb \in RecipeLists, ie \in BOOLEAN, kg \in BOOLEAN :
          state = StateOf(Numbered(Block(A, FALSE, <<"b">>, ra) \o Block(B, FALSE, <<>>, rb)),
                          <<>>,
                          [PlainFlags EXCEPT !.ignore_errors = ie, !.keep_going = kg],
                          <<A>>)
    /\ fs = [f \in Files |-> 0]

DotDefault == <<".", "D", "E", "F", "A", "U", "L", "T">>

\* Rule lines for a, for b, for `.DEFAULT` with and without prerequisites, and
\* for another name that begins with a dot
DefaultBlocks ==
    { Block(A, FALSE, <<>>, <<Recipe(<<"x">>)>>),
      Block(B, FALSE, <<>>, <<Recipe(<<"x">>)>>),
      Block(DotDefault, FALSE, <<>>, <<>>),
      Block(DotDefault, FALSE, <<"b">>, <<>>),
      Block(<<".", "s">>, FALSE, <<>>, <<Recipe(<<"x">>)>>) }

\* Makefiles of up to MaxBlocks such rule lines, no target being requested
InitDefaults ==
    /\ \E rules \in MakefilesOf(DefaultBlocks, MaxBlocks) :
          state = StateOf(rules, <<>>, PlainFlags, <<>>)
    /\ fs = [f \in Files |-> 0]

\* $(foreach @,b c,$(@)) $@: a loop whose variable is named `@`, then `$@`
EachAt ==
    <<"$", "(", "f", "o", "r", "e", "a", "c", "h", " ", "@", ",", "b", " ", "c", ",",
      "$", "(", "@", ")", ")", " ", "$", "@">>

\* $(call M,b)$(1) $@: a call with one argument, then `$(1)` and `$@`
CallM ==
    <<"$", "(", "c", "a", "l", "l", " ", "M", ",", "b", ")", "$", "(", "1", ")", " ", "$", "@">>

\* The recipe lines with a function that binds variables of its own
BindingRecipes == { Recipe(<<"x", " ">> \o EachAt), Recipe(<<"x", " ">> \o CallM) }

\* Recipe lines that use the automatic variables, the `@` prefix, or a
\* function that binds variables of its own
EchoRecipes ==
    { Recipe(<<"x", " ", "$", "@">>),
      Recipe(<<"x", " ", "$", "<">>),
      Recipe(<<"@", "x">>),
      Recipe(<<"x">>),
      Recipe(<<"x", " ">> \o EachAt),
      Recipe(<<"x", " ">> \o CallM) }

\* One recipe line, two lines that use no function, and the loop followed by
\* the call
EchoRecipeLists ==
    ({ <<r>> : r \in EchoRecipes }
     \cup { <<r, q>> : r \in EchoRecipes \ BindingRecipes, q \in EchoRecipes \ BindingRecipes })
    \cup { <<Recipe(<<"x", " ">> \o EachAt), Recipe(<<"x", " ">> \o CallM)>> }

\* One rule for a, under every setting of --dry-run and --silent, a being
\* listed under .SILENT or not; the files b and c exist
InitEchoes ==
    /\ \E p \in { <<>>, <<"b">>, <<"b", " ", "c">> }, rs \in EchoRecipeLists,
          dr \in BOOLEAN, sl \in BOOLEAN, st \in { <<>>, <<A>> } :
          state = [StateOf(Numbered(Block(A, FALSE, p, rs)), <<>>,
                           [PlainFlags EXCEPT !.dryrun = dr, !.silent = sl], <<A>>)
                      EXCEPT !.silent_targets = st]
    /\ fs = [f \in Files |-> IF f = A THEN 0 ELSE 1]

\* $(M)
RefM == <<"$", "(", "M", ")">>

\* The makefile `a: M=x`, `a: b`, `b:`, the recipe of a and of b being
\* `x $(M)`; a is requested and no file exists
InitScoped ==
    /\ state = StateOf(Numbered((<<VarRule(<<A>>, <<"M">>, <<"x">>, 0)>>
                                 \o Block(A, FALSE, <<"b">>, <<Recipe(<<"x", " ">> \o RefM)>>))
                                \o Block(B, FALSE, <<>>, <<Recipe(<<"x", " ">> \o RefM)>>)),
                       <<>>, PlainFlags, <<A>>)
    /\ fs = [f \in Files |-> 0]

\* The variables main defines that the scheduler reads or expands
MainVars ==
    Put(Put(EmptyMap, <<"S">>, NewVar("Simple", "Env", <<"s", "h">>, TRUE)),
        <<"M">>, NewVar("Simple", "Default", <<"m">>, TRUE))

Init ==
    /\ (InitGraphs \/ InitFiles \/ InitErrors \/ InitDefaults \/ InitEchoes \/ InitScoped)
    /\ vars = MainVars
    /\ env = [n \in DOMAIN MainVars |-> MainVars[n].value]
    /\ stack = <<>>
    /\ ti = 1
    /\ exit_code = -1
    /\ log = <<>>
    /\ run = 1
    /\ mutated = FALSE
    /\ in_false = 0
    /\ found_true = FALSE
    /\ nread = 0
    /\ blocks = <<>>
    /\ last_line = <<>>
    /\ cmdline = EmptyMap
    /\ assigned = EmptyMap
    /\ makefile = {}
    /\ eof = FALSE
    /\ file = <<>>
    /\ logical = <<>>

Next ==
    \/ NextRequested
    \/ NextPrereq
    \/ Decide
    \/ RunCommand
    \/ Finish
    \/ Rerun

Spec == Init /\ [][Next]_vars_all

-----------------------------------------------------------------------------
(* What the claims about the scheduler speak of, read off the rules, the
   file system and the log *)

Range(seq) == { seq[i] : i \in 1..Len(seq) }

HasRules(n) ==
    \E i \in 1..Len(state.rules) : Contains(state.rules[i].targets, n)

\* The rule lines (Prereq fragments) of target n
RuleLines(n) ==
    { i \in 1..Len(state.rules) :
        state.rules[i].kind = "Prereq" /\ Contains(state.rules[i].targets, n) }

\* The names listed as prerequisites of n by some rule line
Succ(n) ==
    UNION { Range(SplitWhitespace(state.rules[i].text)) : i \in RuleLines(n) }

RECURSIVE Within(_, _)
Within(S, k) ==
    IF k = 0 THEN S ELSE Within(S \cup UNION { Succ(n) : n \in S }, k - 1)

\* The names n depends on, directly or not
Desc(n) == Within(Succ(n), Cardinality(Files))

Acyclic == \A n \in Files : n \notin Desc(n)

\* The recipe lines that follow rule line i of target n
Body(n, i) ==
    { k \in 1..Len(state.rules) :
        /\ state.rules[k].kind = "Recipie" /\ Contains(state.rules[k].targets, n)
        /\ k > i
        /\ ~\E j \in RuleLines(n) : i < j /\ j < k }

HasRecipe(n) ==
    \E i \in 1..Len(state.rules) :
        /\ state.rules[i].kind = "Recipie" /\ Contains(state.rules[i].targets, n)
        /\ Trim(state.rules[i].text) # <<>>

Phony(n) == Contains(state.phony, n)
Missing(n) == fs[n] = 0

\* n is phony, or its file is missing, or a prerequisite of n is phony,
\* missing or newer than n
OutOfDate(n) ==
    \/ Phony(n)
    \/ Missing(n)
    \/ \E p \in Succ(n) : Phony(p) \/ Missing(p) \/ fs[p] > fs[n]

\* update(n) has run to its end
Finished(n) ==
    Contains(state.processed, n) /\ \A k \in 1..Len(stack) : stack[k].name # n

Happened(j, r, ev, t) == log[j].run = r /\ log[j].ev = ev /\ log[j].t = t

EnterPos(r, t) == CHOOSE j \in 1..Len(log) : Happened(j, r, "enter", t)

\* C2: in an acyclic rule graph every prerequisite of T has been updated to
\* its end before the first command of T is launched (no command of a
\* prerequisite is launched later), and the prerequisites of T are updated
\* depth-first in the order they are first listed.
C2_PrereqsFirst ==
    Acyclic =>
      /\ \A k \in 1..Len(stack) :
            LET f == stack[k] IN
            /\ \A i \in 1..Len(f.prerequisites) :
                  (f.pc = "run" \/ i < f.pi) => Finished(f.prerequisites[i])
            /\ \A i, j \in 1..Len(f.prerequisites) :
                  (i < j /\ (f.pc = "run" \/ j < f.pi)
                     /\ (\A h \in 1..(j - 1) : f.prerequisites[h] # f.prerequisites[j])
                     /\ EnterPos(run, f.prerequisites[j]) > EnterPos(run, f.name))
                  => EnterPos(run, f.prerequisites[i]) <= EnterPos(run, f.prerequisites[j])
            /\ k < Len(stack) =>
                  /\ f.pc = "prereqs" /\ f.pi <= Len(f.prerequisites)
                  /\ stack[k + 1].name = f.prerequisites[f.pi]
      /\ \A j \in 1..Len(log) :
            log[j].ev = "launch" =>
              \A p \in Succ(log[j].t) :
                 /\ \E i \in 1..(j - 1) : Happened(i, log[j].run, "enter", p)
                 /\ \A i \in (j + 1)..Len(log) :
                       ~(Happened(i, log[j].run, "enter", p) \/ Happened(i, log[j].run, "launch", p))

\* A target with two prerequisites, one of them a target with a recipe of its
\* own, has launched its command after the command of its prerequisite
C2_Witness ==
    /\ Acyclic
    /\ \E j \in 1..Len(log), i \in 1..Len(log) :
          /\ i < j
          /\ Happened(j, 1, "launch", A) /\ Happened(i, 1, "launch", B)
          /\ CollectRules(state.rules, A).prerequisites = <<B, C>>

\* process_target has updated the prerequisites and is about to decide
DecideStep ==
    /\ Running /\ stack # <<>>
    /\ Top.pc = "prereqs" /\ Top.pi > Len(Top.prerequisites)

\* C3: with --always-make unset, the recipes of a target T that has rules are
\* run exactly when T is phony, or its file does not exist, or a prerequisite
\* of T is phony, missing as a file or strictly newer than T.
C3_Decision ==
    [][ (DecideStep /\ ~state.always_make /\ HasRules(Top.name))
        => ( (stack' # <<>> /\ Len(stack') = Len(stack) /\ Top'.pc = "run")
             <=> (OutOfDate(Top.name) /\ HasRecipe(Top.name)) ) ]_vars_all

\* An existing target is being remade because a prerequisite is newer
C3_Witness ==
    /\ stack # <<>> /\ Top.pc = "run" /\ ~mutated /\ ~state.always_make
    /\ state.phony = <<>>
    /\ \A n \in Files : ~Missing(n)
    /\ \E p \in Succ(Top.name) : fs[p] > fs[Top.name]

\* C4: within one invocation the body of update is entered at most once per
\* target and no recipe command is launched twice.
C4_Once ==
    \A i \in 1..Len(log) :
        log[i].ev \in {"enter", "launch"} =>
            \A j \in (i + 1)..Len(log) : log[i] # log[j]

\* b is requested before a, which lists b as a prerequisite; both were made
C4_Witness ==
    /\ exit_code = 0 /\ run = 1
    /\ state.targets_to_make = <<B, A>> /\ B \in Succ(A)
    /\ \E i, j \in 1..Len(log) : Happened(i, 1, "launch", B) /\ Happened(j, 1, "launch", A)

\* The names the requested targets are or depend on
Wanted == UNION { {t} \cup Desc(t) : t \in Range(TargetsToMake) }

SecondRunLaunches == \E j \in 1..Len(log) : log[j].run = 2 /\ log[j].ev = "launch"

\* C5 as stated: the second of two invocations in a row, with no file-system
\* mutation between or during them, launches no command unless a target
\* wanted is phony or --always-make is set.
C5_AsStated ==
    (run = 2 /\ ~mutated /\ ~state.always_make /\ \A n \in Wanted : ~Phony(n))
    => ~SecondRunLaunches

\* C5 amended: ... unless a target wanted is phony, or is out of date when the
\* invocations start (its file is missing, or a prerequisite of it is missing
\* or newer), or --always-make is set.
C5_SecondRunIdle ==
    (run = 2 /\ ~mutated /\ ~state.always_make
       /\ \A n \in Wanted : ~Phony(n) /\ (HasRules(n) => ~OutOfDate(n)))
    => ~SecondRunLaunches

\* The second invocation has ended; the requested target has a recipe and is
\* up to date
C5_Witness ==
    /\ run = 2 /\ exit_code = 0 /\ ~mutated /\ ~state.always_make
    /\ A \in Range(TargetsToMake) /\ HasRecipe(A) /\ Succ(A) # {}
    /\ \A n \in Wanted : ~Phony(n) /\ (HasRules(n) => ~OutOfDate(n))
    /\ ~SecondRunLaunches

\* The recipe line k carries the `-` prefix, or --ignore-errors is set
Tolerated(k) ==
    StartsWithChar(Trim(state.rules[k].text), "-") \/ state.ignore_errors

\* Target t has a command after recipe line k
HasLaterCommand(t, k) ==
    \E i \in 1..Len(CollectRules(state.rules, t).recipies) :
        LET r == CollectRules(state.rules, t).recipies[i]
        IN  r.line > k /\ Trim(r.text) # <<>>

\* C6: a failed command that neither a `-` prefix nor --ignore-errors nor
\* --keep-going covers ends the process with exit code 2 and nothing is
\* launched after it; a failed command that a `-` prefix or --ignore-errors
\* covers is reported as ignored and the next command is run.
C6_Failure ==
    \A j \in 1..Len(log) :
      /\ log[j].ev = "error" =>
            /\ ~Tolerated(log[j].k)
            /\ ~state.keep_going =>
                  /\ \A i \in (j + 1)..Len(log) : log[i].run # log[j].run
                  /\ run = log[j].run => exit_code = 2
      /\ log[j].ev = "error_ignored" =>
            /\ Tolerated(log[j].k)
            /\ j = Len(log) =>
                  /\ exit_code # 2
                  /\ HasLaterCommand(log[j].t, log[j].k) =>
                        /\ stack # <<>> /\ Top.name = log[j].t /\ Top.pc = "run"
                        /\ Top.expanded[Top.ci].line > log[j].k
            /\ (j < Len(log) /\ HasLaterCommand(log[j].t, log[j].k)) =>
                  /\ log[j + 1].run = log[j].run /\ log[j + 1].t = log[j].t
                  /\ log[j + 1].ev \in {"echo", "launch"} /\ log[j + 1].k > log[j].k

\* A failure under a `-` prefix was reported as ignored, the next command of
\* the target was launched, and its failure aborted the run
C6_Witness ==
    /\ exit_code = 2 /\ ~state.ignore_errors /\ ~state.keep_going
    /\ \E j \in 1..Len(log) :
          /\ log[j].ev = "error_ignored"
          /\ \E i \in (j + 1)..Len(log) :
                log[i].ev = "launch" /\ log[i].t = log[j].t /\ log[i].k > log[j].k
    /\ log[Len(log)].ev = "error"

\* Target n has a single-colon rule line and a double-colon rule line
Mixed(n) ==
    \E i, j \in RuleLines(n) : state.rules[i].double /\ ~state.rules[j].double

\* C7: whenever some target of the makefile has both a `:` and a `::` rule,
\* the run ends with the fatal error `has both : and :: entries` and exit
\* code 2, whether or not that target is scheduled.
C7_MixedIsFatal ==
    (exit_code >= 0 /\ \E n \in Files : Mixed(n))
    => /\ exit_code = 2
       /\ \E j \in 1..Len(log) : log[j].run = run /\ log[j].ev = "both_colon_entries"

\* Target n is declared by exactly two rule lines, both `::` (d) or both `:`,
\* each with a recipe body
Twice(n, d) ==
    /\ Cardinality(RuleLines(n)) = 2
    /\ \A i \in RuleLines(n) : state.rules[i].double = d /\ Body(n, i) # {}

LastRuleLine(n) == CHOOSE i \in RuleLines(n) : \A j \in RuleLines(n) : j <= i

\* The commands of the record on top of the stack are the recipe lines ks, in
\* source order
RunsExactly(ks) ==
    /\ { Top.expanded[c].line : c \in 1..Len(Top.expanded) } = ks
    /\ \A c, e \in 1..Len(Top.expanded) :
          c < e => Top.expanded[c].line < Top.expanded[e].line

\* C8 without the warning: both bodies of a `::` target declared twice are
\* run in source order, only the last body of a `:` target declared twice
Bodies_TwiceDeclared ==
    \A n \in Files :
      (stack # <<>> /\ Top.name = n /\ Top.pc = "run") =>
         /\ Twice(n, TRUE) => RunsExactly(UNION { Body(n, i) : i \in RuleLines(n) })
         /\ Twice(n, FALSE) => RunsExactly(Body(n, LastRuleLine(n)))

\* C8: remaking a `::` target declared twice, each time with a recipe body,
\* runs both bodies in source order; remaking a `:` target declared twice runs
\* only the last body, and a warning is emitted.
C8_TwiceDeclared ==
    /\ Bodies_TwiceDeclared
    /\ \A n \in Files :
         (stack # <<>> /\ Top.name = n /\ Top.pc = "run" /\ Twice(n, FALSE)) =>
            \E j \in 1..Len(log) :
               log[j].run = run /\ log[j].ev = "warning" /\ log[j].t = n

-----------------------------------------------------------------------------
(* Reading a makefile: process_lines and parse_line.  The lines drawn are
   conditional directives and global assignments with `=` and `:=`; the arms
   of process_lines and parse_line for include, define, export, unexport and
   the operators `+=`, `?=`, `!=` are not reached by them. *)

\* .replace(['"', '\''], "")
Unquote(s) == SelectSeq(s, LAMBDA c : c \notin {"\"", "'"})

kw_ifeq == <<"i", "f", "e", "q", " ">>
kw_ifneq == <<"i", "f", "n", "e", "q", " ">>
kw_ifdef == <<"i", "f", "d", "e", "f", " ">>
kw_ifndef == <<"i", "f", "n", "d", "e", "f", " ">>
kw_endif == <<"e", "n", "d", "i", "f">>
kw_else == <<"e", "l", "s", "e">>

\* main: a command-line argument that does not start with `-`
CmdLineArg(a) ==
    LET parts == SplitOn(a, "=", <<>>, <<>>)
    IN  [is_var |-> Len(parts) > 1,
         l |-> parts[1],
         v |-> Flatten(Tail(parts))]

\* process_lines: the arguments of ifeq / ifneq, in parentheses or not
TwoArgs(s_args) ==
    IF Head(s_args) = "("
    THEN SplitOn(SubSeq(s_args, 2, Len(s_args) - 1), ",", <<>>, <<>>)
    ELSE SplitWhitespace(s_args)

\* process_lines: the two expanded arguments of ifeq / ifneq compared
Compared(a1, a2) ==
    IF a1.err # "" THEN [eq |-> FALSE, err |-> a1.err]
    ELSE IF a2.err # "" THEN [eq |-> FALSE, err |-> a2.err]
    ELSE [eq |-> Trim(Unquote(a1.out)) = Trim(Unquote(a2.out)), err |-> ""]

\* process_lines: are the two arguments of ifeq / ifneq equal after expansion
CompareArgs(vs, s_args) ==
    IF s_args = <<>> \/ Len(TwoArgs(s_args)) < 2 THEN [eq |-> FALSE, err |-> "panic"]
    ELSE Compared(ExpandSimple(vs, TwoArgs(s_args)[1]), ExpandSimple(vs, TwoArgs(s_args)[2]))

\* process_lines: the name after ifdef / ifndef is expanded
Defined(vs, var) == [eq |-> var.out \in DOMAIN vs, err |-> var.err]

\* process_lines: is the variable named by ifdef / ifndef in vars
IsDefined(vs, name) == Defined(vs, ExpandSimple(vs, name))

\* Does the text t start with one of the four conditional keywords; `ifdef`
\* is looked for as ifdef_kw (with or without the space after it)
IsCondition(t, ifdef_kw) ==
    \/ StartsWith(t, kw_ifeq) \/ StartsWith(t, kw_ifneq)
    \/ StartsWith(t, ifdef_kw) \/ StartsWith(t, kw_ifndef)

\* The condition holds when the test gives what the keyword wants
Tested(test, wanted) == [eq |-> test.eq = wanted, err |-> test.err]

\* process_lines: does the condition of the directive t hold.  The arguments
\* of ifneq are taken from offset neq_from.
Condition(vs, t, neq_from, ifdef_kw) ==
    IF StartsWith(t, kw_ifeq) \/ StartsWith(t, kw_ifneq)
    THEN Tested(CompareArgs(vs, Trim(From(t, IF StartsWith(t, kw_ifeq) THEN 5 ELSE neq_from))),
                StartsWith(t, kw_ifeq))
    ELSE Tested(IsDefined(vs, Trim(From(t, IF StartsWith(t, ifdef_kw) THEN 6 ELSE 7))),
                StartsWith(t, ifdef_kw))

\* What parse_line and process_lines leave: the state, the variables, the
\* environment, and how the process died if it did
Parsed(st, vs, e, err) == [state |-> st, vars |-> vs, env |-> e, err |-> err]

\* What one turn of the loop of process_lines leaves.  handled tells whether
\* the line was taken as a line of the makefile (a recipe, a rule, an
\* assignment) rather than skipped or taken as a directive.
Step(inf, ft, handled, parsed) ==
    [in_false |-> inf, found_true |-> ft, handled |-> handled, parsed |-> parsed]

\* process_lines: in_false after a condition was tested
Branch(st, vs, e, ft, test) ==
    Step(IF test.err = "" /\ test.eq THEN 0 ELSE 1, ft, FALSE, Parsed(st, vs, e, test.err))

\* process_lines while in_false = 1 and found_true is false: an `else` line, rest
\* being what follows the keyword
ElseWhileSkipping(st, vs, e, ft, rest) ==
    IF rest = <<>> THEN Step(0, ft, FALSE, Parsed(st, vs, e, ""))
    ELSE IF IsCondition(rest, TrimEnd(kw_ifdef))
    THEN Branch(st, vs, e, ft, Condition(vs, rest, 6, TrimEnd(kw_ifdef)))
    ELSE Step(1, ft, FALSE, Parsed(st, vs, e, ""))

\* process_lines while in_false > 0
SkippingStep(st, vs, e, inf, ft, line) ==
    IF IsCondition(Trim(line), kw_ifdef) THEN Step(inf + 1, ft, FALSE, Parsed(st, vs, e, ""))
    ELSE IF StartsWith(Trim(line), kw_endif) THEN Step(inf - 1, ft, FALSE, Parsed(st, vs, e, ""))
    ELSE IF inf = 1 /\ ~ft /\ StartsWith(Trim(line), kw_else)
    THEN ElseWhileSkipping(st, vs, e, ft, Trim(From(Trim(line), 4)))
    ELSE Step(inf, ft, FALSE, Parsed(st, vs, e, ""))

\* parse_line, its first loop: is the line a rule ("rule", "double") or not ("none")
RECURSIVE ScanKind(_, _)
ScanKind(src, depth) ==
    IF src = <<>> THEN "none"
    ELSE LET c == Head(src)
             next == IF Len(src) > 1 THEN src[2] ELSE ""
             after == IF Len(src) > 2 THEN src[3] ELSE ""
         IN  IF c \in {")", "}"} THEN ScanKind(Tail(src), IF depth > 0 THEN depth - 1 ELSE 0)
             ELSE IF c \in {"(", "{"} THEN ScanKind(Tail(src), depth + 1)
             ELSE IF depth > 0 THEN ScanKind(Tail(src), depth)
             ELSE IF c = ":" /\ next = "=" THEN "none"
             ELSE IF c = "=" THEN "none"
             ELSE IF c = ":" /\ next = ":" THEN (IF after = "=" THEN "none" ELSE "double")
             ELSE IF c = ":" THEN "rule"
             ELSE ScanKind(Tail(src), depth)

\* parse_line: the operator an `=` closes, given the text before it
AssignOp(buf) ==
    LET n == Len(buf)
        a == IF n > 0 THEN buf[n] ELSE ""
    IN  IF n = 0 THEN [lhs |-> <<>>, op |-> "panic"]
        ELSE IF a = ":"
        THEN IF n = 1 THEN [lhs |-> <<>>, op |-> "panic"]
             ELSE IF buf[n - 1] = ":" THEN [lhs |-> SubSeq(buf, 1, n - 2), op |-> "::="]
             ELSE [lhs |-> SubSeq(buf, 1, n - 1), op |-> ":="]
        ELSE IF a \in {"?", "+", "!"} THEN [lhs |-> SubSeq(buf, 1, n - 1), op |-> a \o "="]
        ELSE [lhs |-> buf, op |-> "="]

\* parse_line, its second loop: (is_var, var_lhs, var_op, var_rhs)
RECURSIVE ScanAssign(_, _, _, _)
ScanAssign(src, depth, buf, found) ==
    IF src = <<>>
    THEN [is_var |-> found.op # "", lhs |-> found.lhs, op |-> found.op, rhs |-> buf]
    ELSE LET c == Head(src)
         IN  IF c \in {")", "}"}
             THEN ScanAssign(Tail(src), IF depth > 0 THEN depth - 1 ELSE 0, Append(buf, c), found)
             ELSE IF c \in {"(", "{"} THEN ScanAssign(Tail(src), depth + 1, Append(buf, c), found)
             ELSE IF depth > 0 THEN ScanAssign(Tail(src), depth, Append(buf, c), found)
             ELSE IF c = ";" /\ found.op = ""
             THEN [is_var |-> FALSE, lhs |-> <<>>, op |-> "", rhs |-> buf]
             ELSE IF c = "=" /\ found.op = ""
             THEN IF AssignOp(buf).op = "panic"
                  THEN [is_var |-> TRUE, lhs |-> <<>>, op |-> "panic", rhs |-> <<>>]
                  ELSE ScanAssign(Tail(src), depth, <<>>, AssignOp(buf))
             ELSE ScanAssign(Tail(src), depth, Append(buf, c), found)

\* A cell put in vars while the environment is left as it was
WithCellUnsynced(st, vs, e, name, cell) == Parsed(st, Put(vs, name, cell), e, "")

\* Var::store or Var::new followed by sync_env: the cell is in vars, the
\* environment follows
WithCell(st, vs, e, name, cell) == Parsed(st, Put(vs, name, cell), SyncEnv(e, name, cell), "")

\* parse_line, VarOp::Store with targets: a target-specific assignment
TargetVar(st, vs, e, line_no, tx, lhs, rhs) ==
    IF tx.err # "" THEN Parsed(st, vs, e, tx.err)
    ELSE Parsed([st EXCEPT !.rules = Append(@, VarRule(SplitWhitespace(tx.out), lhs, rhs, line_no))],
                vs, e, "")

\* parse_line, VarOp::Store after lhs and rhs were expanded
Stored(st, vs, e, line_no, targets, lhsx, expand, rhsx, export) ==
    IF lhsx.err # "" THEN Parsed(st, vs, e, lhsx.err)
    ELSE IF rhsx.err # "" THEN Parsed(st, vs, e, rhsx.err)
    ELSE IF targets.some
    THEN TargetVar(st, vs, e, line_no, ExpandSimple(vs, targets.text), Trim(lhsx.out), rhsx.out)
    ELSE WithCell(st, vs, e, Trim(lhsx.out),
                  IF Trim(lhsx.out) \in DOMAIN vs
                  THEN StoreCell(vs[Trim(lhsx.out)], Trim(rhsx.out))
                  ELSE NewVar(IF expand THEN "Simple" ELSE "Recursive", "File",
                              Trim(rhsx.out), export))

\* parse_line, VarOp::Store: `lhs = rhs` (expand is false) or `lhs := rhs`
Store(st, vs, e, line_no, targets, lhs0, expand, rhs0, export) ==
    Stored(st, vs, e, line_no, targets, ExpandSimple(vs, lhs0), expand,
           IF expand THEN ExpandSimple(vs, rhs0) ELSE Ok(rhs0), export)

\* parse_line, a rule line: the Prereq fragment, and the recipe after `;`
Fragments(names, double, prereqs, cut, line_no) ==
    <<PrereqRule(names, double, prereqs, line_no)>>
    \o (IF cut.found THEN <<RecipieRule(names, cut.after, line_no)>> ELSE <<>>)

\* parse_line, a rule line after prerequisites and targets were expanded
RuleOf(st, vs, e, line_no, double, px, tx, cut) ==
    IF px.err # "" THEN Parsed(st, vs, e, px.err)
    ELSE IF tx.err # "" THEN Parsed(st, vs, e, tx.err)
    ELSE Parsed([st EXCEPT !.in_rule = TRUE,
                           !.rules = @ \o Fragments(SplitWhitespace(tx.out), double, px.out,
                                                    cut, line_no)],
                vs, e, "")

\* parse_line, a rule line
RuleLine(st, vs, e, line_no, targets, double, src) ==
    RuleOf(st, vs, e, line_no, double,
           ExpandSimple(vs, SplitOnce(src, <<";">>, <<>>).before),
           ExpandSimple(vs, targets), SplitOnce(src, <<";">>, <<>>))

\* parse_line: the targets before the first `:` or `::` of a rule line, and
\* the text after it
Targets(double, cut) == [some |-> TRUE, text |-> cut.before, src |-> cut.after]

kw_export == <<"e", "x", "p", "o", "r", "t">>
kw_unexport == <<"u", "n">> \o kw_export

\* parse_line, VarOp::StoreIfUndef after lhs was expanded
StoredIfUndef(st, vs, e, line_no, targets, lhsx, rhs, export) ==
    IF lhsx.err # "" THEN Parsed(st, vs, e, lhsx.err)
    ELSE IF targets.some
    THEN TargetVar(st, vs, e, line_no, ExpandSimple(vs, targets.text), Trim(lhsx.out), rhs)
    ELSE IF Trim(lhsx.out) \in DOMAIN vs THEN Parsed(st, vs, e, "")
    ELSE WithCell(st, vs, e, Trim(lhsx.out), NewVar("Recursive", "File", Trim(rhs), export))

\* parse_line, VarOp::Append after lhs and rhs were expanded
Appended(st, vs, e, line_no, targets, lhsx, rhsx, export) ==
    IF lhsx.err # "" THEN Parsed(st, vs, e, lhsx.err)
    ELSE IF rhsx.err # "" THEN Parsed(st, vs, e, rhsx.err)
    ELSE IF targets.some
    THEN TargetVar(st, vs, e, line_no, ExpandSimple(vs, targets.text), Trim(lhsx.out), rhsx.out)
    ELSE WithCell(st, vs, e, Trim(lhsx.out),
                  IF Trim(lhsx.out) \in DOMAIN vs
                  THEN AppendCell(vs[Trim(lhsx.out)], Trim(rhsx.out))
                  ELSE NewVar("Recursive", "File", Trim(rhsx.out), export))

\* parse_line, VarOp::Append: is the right-hand side expanded before it is
\* appended to the cell stored under the name
AppendExpands(vs, name) == name \in DOMAIN vs /\ vs[name].flavor = "Recursive"

\* parse_line, VarOp::Append: `lhs += rhs`
AppendTo(st, vs, e, line_no, targets, lhsx, rhs0, export) ==
    Appended(st, vs, e, line_no, targets, lhsx,
             IF lhsx.err = "" /\ AppendExpands(vs, Trim(lhsx.out))
             THEN ExpandSimple(vs, rhs0) ELSE Ok(rhs0),
             export)

\* parse_line, `unexport NAMES`: every name that has a cell is unexported
RECURSIVE UnexportNames(_, _, _, _)
UnexportNames(st, vs, e, names) ==
    IF names = <<>> THEN Parsed(st, vs, e, "")
    ELSE IF Head(names) \in DOMAIN vs
    THEN UnexportNames(st, Put(vs, Head(names), UnexportCell(vs[Head(names)])),
                       Drop(e, Head(names)), Tail(names))
    ELSE UnexportNames(st, vs, e, Tail(names))

UnexportNamed(st, vs, e, x) ==
    IF x.err # "" THEN Parsed(st, vs, e, x.err)
    ELSE UnexportNames(st, vs, e, SplitWhitespace(x.out))

\* parse_line, `unexport` alone: the names it unexports
ImplicitlyUnexported(vs) == { n \in DOMAIN vs : ~vs[n].exported /\ vs[n].origin # "Env" }

\* parse_line, `unexport` alone
UnexportRest(st, vs, e) ==
    Parsed(st,
           [n \in DOMAIN vs |->
               IF n \in ImplicitlyUnexported(vs) THEN UnexportCell(vs[n]) ELSE vs[n]],
           [n \in (DOMAIN e) \ ImplicitlyUnexported(vs) |-> e[n]],
           "")

\* parse_line, `export NAMES`: every name that has a cell is exported
RECURSIVE ExportNames(_, _, _, _)
ExportNames(st, vs, e, names) ==
    IF names = <<>> THEN Parsed(st, vs, e, "")
    ELSE IF Head(names) \in DOMAIN vs
    THEN ExportNames(st, Put(vs, Head(names), ExportCell(vs[Head(names)])),
                     SyncEnv(e, Head(names), ExportCell(vs[Head(names)])), Tail(names))
    ELSE ExportNames(st, vs, e, Tail(names))

\* parse_line, `export` alone: the names it exports
ImplicitlyExported(vs) == { n \in DOMAIN vs : ~vs[n].unexported }

\* parse_line, `export` alone
ExportRest(st, vs, e) ==
    Parsed(st,
           [n \in DOMAIN vs |->
               IF n \in ImplicitlyExported(vs) THEN ExportCell(vs[n]) ELSE vs[n]],
           [n \in (DOMAIN e) \cup ImplicitlyExported(vs) |->
               IF n \in ImplicitlyExported(vs) THEN vs[n].value ELSE e[n]],
           "")

\* parse_line, an `export` line that is neither an assignment nor a rule
ExportNamed(st, vs, e, x) ==
    IF x.err # "" THEN Parsed(st, vs, e, x.err)
    ELSE IF SplitWhitespace(x.out) = <<>> THEN ExportRest(st, vs, e)
    ELSE ExportNames(st, vs, e, SplitWhitespace(x.out))

\* parse_line: does the text begin with the `export` keyword, and the text
\* left once the keyword is taken off
IsExport(src) == StartsWith(Trim(src), kw_export)
AfterExport(src) ==
    IF StartsWith(Trim(src), kw_export \o <<" ">>) THEN From(Trim(src), 7)
    ELSE IF StartsWith(Trim(src), kw_export) THEN <<>>
    ELSE src

\* parse_line, VarOp::Shell: todo!() once lhs was expanded
ShellAssign(st, vs, e, lhsx) ==
    Parsed(st, vs, e, IF lhsx.err # "" THEN lhsx.err ELSE "panic")

\* parse_line, an assignment: the match on var_op
Assign(st, vs, e, line_no, targets, a, export) ==
    IF a.op \in {"=", ":=", "::="}
    THEN Store(st, vs, e, line_no, targets, a.lhs, a.op # "=", a.rhs, export)
    ELSE IF a.op = "?="
    THEN StoredIfUndef(st, vs, e, line_no, targets, ExpandSimple(vs, a.lhs), a.rhs, export)
    ELSE IF a.op = "+="
    THEN AppendTo(st, vs, e, line_no, targets, ExpandSimple(vs, a.lhs), a.rhs, export)
    ELSE IF a.op = "!=" THEN ShellAssign(st, vs, e, ExpandSimple(vs, a.lhs))
    ELSE Parsed(st, vs, e, "panic")

\* parse_line after the line was split: a is (is_var, var_lhs, var_op, var_rhs)
ParseRest(st, vs, e, line_no, double, targets, export, src, a) ==
    IF a.is_var
    THEN Assign(st, vs, e, line_no, targets, a, export)
    ELSE IF targets.some
    THEN RuleLine(st, vs, e, line_no, targets.text, double, src)
    ELSE IF export THEN ExportNamed(st, vs, e, ExpandSimple(vs, src))
    ELSE Parsed(st, vs, e, ExpandSimple(vs, src).err)

\* parse_line once the first loop has told what kind of line it is
ParseAs(st, vs, e, line_no, kind, targets) ==
    IF ~targets.some /\ StartsWith(Trim(targets.src), kw_unexport \o <<" ">>)
    THEN UnexportNamed(st, vs, e, ExpandSimple(vs, From(Trim(targets.src), 9)))
    ELSE IF ~targets.some /\ StartsWith(Trim(targets.src), kw_unexport)
    THEN UnexportRest(st, vs, e)
    ELSE ParseRest(st, vs, e, line_no, kind = "double", targets, IsExport(targets.src),
                   AfterExport(targets.src),
                   ScanAssign(AfterExport(targets.src), 0, <<>>, [lhs |-> <<>>, op |-> ""]))

\* Variant of ParseLine: in_rule is left as the line before set it
ParseLineInRule(st, vs, e, line_no, line) ==
    ParseAs(st, vs, e, line_no, ScanKind(line, 0),
            IF ScanKind(line, 0) = "none"
            THEN [some |-> FALSE, text |-> <<>>, src |-> line]
            ELSE Targets(ScanKind(line, 0) = "double",
                         SplitOnce(line, IF ScanKind(line, 0) = "double"
                                         THEN <<":", ":">> ELSE <<":">>, <<>>)))

\* parse_line
ParseLine(st, vs, e, line_no, line) ==
    ParseAs([st EXCEPT !.in_rule = FALSE], vs, e, line_no, ScanKind(line, 0),
            IF ScanKind(line, 0) = "none"
            THEN [some |-> FALSE, text |-> <<>>, src |-> line]
            ELSE Targets(ScanKind(line, 0) = "double",
                         SplitOnce(line, IF ScanKind(line, 0) = "double"
                                         THEN <<":", ":">> ELSE <<":">>, <<>>)))

\* process_lines while in_false = 0: a recipe line
RecipieLine(st, vs, e, line_no, line) ==
    IF ~st.in_rule \/ st.rules = <<>> \/ st.rules[Len(st.rules)].kind = "Var"
    THEN Parsed(st, vs, e, "panic")
    ELSE Parsed([st EXCEPT !.rules = Append(@,
                     RecipieRule(st.rules[Len(st.rules)].targets, line, line_no))],
                vs, e, "")

\* process_lines while in_false = 0
ProcessingStep(st, vs, e, ft, line_no, line) ==
    IF StartsWithChar(line, "\t") THEN Step(0, ft, TRUE, RecipieLine(st, vs, e, line_no, line))
    ELSE IF Trim(line) = <<>> THEN Step(0, ft, FALSE, Parsed(st, vs, e, ""))
    ELSE IF IsCondition(Trim(line), kw_ifdef)
    THEN Branch(st, vs, e, ft, Condition(vs, Trim(line), 5, kw_ifdef))
    ELSE IF StartsWith(Trim(line), kw_endif) THEN Step(0, ft, FALSE, Parsed(st, vs, e, ""))
    ELSE IF StartsWith(Trim(line), kw_else) THEN Step(1, TRUE, FALSE, Parsed(st, vs, e, ""))
    ELSE Step(0, ft, TRUE, ParseLine(st, vs, e, line_no, line))

\* Is the line a conditional directive, and which
IsIf(line) == IsCondition(Trim(line), kw_ifdef)
IsEndif(line) == StartsWith(Trim(line), kw_endif)
IsElse(line) == StartsWith(Trim(line), kw_else)
IsPlainElse(line) == Trim(line) = kw_else

\* The condition of an `if..` or `else if..` line
ConditionOf(line) == IF IsElse(line) THEN Trim(From(Trim(line), 4)) ELSE Trim(line)

\* Does the condition of `if..` or `else if..` hold; a plain `else` holds
Holds(vs, line) ==
    IF IsPlainElse(line) THEN TRUE ELSE Condition(vs, ConditionOf(line), 6, kw_ifdef).eq

\* Every open conditional block is in the branch selected for it
Live(bs) == \A i \in 1..Len(bs) : bs[i].live

\* A conditional block records whether one of its branches has been selected
\* (taken), whether the current branch is the selected one (live), and
\* whether its plain `else` was met (closed)
BranchOf(holds, closed) == [taken |-> holds, live |-> holds, closed |-> closed]
Passed(closed) == [taken |-> TRUE, live |-> FALSE, closed |-> closed]

\* The open conditional blocks after the line
BlocksAfter(bs, vs, line) ==
    IF IsIf(line)
    THEN Append(bs, IF Live(bs) THEN BranchOf(Holds(vs, line), FALSE) ELSE Passed(FALSE))
    ELSE IF IsEndif(line) THEN SubSeq(bs, 1, Len(bs) - 1)
    ELSE IF IsElse(line)
    THEN Append(SubSeq(bs, 1, Len(bs) - 1),
                IF bs[Len(bs)].taken THEN Passed(IsPlainElse(line))
                ELSE BranchOf(Holds(vs, line), IsPlainElse(line)))
    ELSE bs

\* The conditionals of the makefile are well nested up to and including the line
WellNested(bs, line) ==
    /\ IsEndif(line) => bs # <<>>
    /\ IsElse(line) => bs # <<>> /\ ~bs[Len(bs)].closed

\* The lines of the makefiles read
MakefileLines ==
    { <<"X", ":", "=", "2">>,
      <<"X", "=", "$", "(", "Y", ")">>,
      <<"Y", " ", "=", " ", "1">>,
      <<"Y", ":", "=", "$", "(", "X", ")">>,
      kw_ifdef \o <<"Y">>,
      kw_ifndef \o <<"Y">>,
      kw_ifeq \o <<"(", "$", "(", "X", ")", ",", "1", ")">>,
      kw_else,
      kw_else \o <<" ">> \o kw_ifneq \o <<"(", "$", "(", "X", ")", ",", " ", "1", ")">>,
      kw_endif }

X == <<"X">>
Y == <<"Y">>
R == <<"R">>
Z == <<"Z">>

\* The lines `NAME op TEXT`
Assignment(name, op, text) == (name \o op) \o text

\* The text `$(NAME)`
Ref(name) == (<<"$", "(">> \o name) \o <<")">>

\* The text Y is defined with, and the line that reads Y
Later == Ref(X) \o <<" ", "w">>
ReadLine == Assignment(R, <<":", "=">>, Ref(Y))

\* The lines of a makefile of assignments
AssignLines ==
    { Assignment(X, <<":", "=">>, <<"h">>),
      Assignment(X, <<":", "=">>, <<"i">>),
      Assignment(Y, <<"=">>, Later),
      ReadLine,
      Assignment(Y, <<"+", "=">>, Ref(X)),
      Assignment(X, <<" ", "+", "=", " ">>, Ref(R)),
      Assignment(Z, <<"+", "=">>, Ref(X) \o <<" ">>) }

\* The lines of a makefile of export directives
ExportLines ==
    { Assignment(X, <<":", "=">>, <<"h">>),
      Assignment(X, <<":", "=">>, <<"i">>),
      Assignment(X, <<"+", "=">>, <<"w">>),
      kw_export \o <<" ">> \o X,
      kw_unexport \o <<" ">> \o X,
      kw_export,
      kw_unexport,
      kw_export \o <<" ">> \o Assignment(Z, <<":", "=">>, <<"1">>) }

DotSilent == <<".", "S", "I", "L", "E", "N", "T">>
DotPhony == <<".", "P", "H", "O", "N", "Y">>

V == <<"V">>

\* The lines of a makefile of rules: a rule for a whose prerequisites are
\* `$(V)`, assignments to V, a recipe line, `.SILENT` and `.PHONY` lines, and
\* the target-scoped assignment `a: V = x`
RuleFileLines ==
    { (A \o <<":", " ">>) \o Ref(V),
      (A \o <<":", " ">>) \o Assignment(V, <<" ", "=", " ">>, <<"x">>),
      Assignment(V, <<" ", "=", " ">>, B),
      Assignment(V, <<"=">>, C),
      Recipe(<<"x">>),
      DotSilent \o <<":">>,
      DotSilent \o <<":", " ", "a">>,
      DotPhony \o <<":", " ", "a", " ", "b">> }

\* The decimal numeral of k, for k below ten
NumberText(k) == <<(<<"0", "1", "2", "3", "4", "5", "6", "7", "8", "9">>)[k + 1]>>

\* The indexes handed to wordlist: the numerals up to MaxIndex, and a text
\* that is no number
IndexTexts == { NumberText(k) : k \in 0..MaxIndex } \cup { X }

\* $(f args)
CallOf(f, args) == ((<<"$", "(">> \o f) \o <<" ">>) \o (args \o <<")">>)

SubstCall(from, to, text) == CallOf(kw_subst, (((from \o <<",">>) \o to) \o <<",">>) \o text)

WordListCall(s, e, list) == CallOf(kw_wordlist, (((s \o <<",">>) \o e) \o <<",">>) \o list)

\* $(subst c,d,c): the text d
Nested == SubstCall(<<"c">>, <<"d">>, <<"c">>)

\* Lists of no, one, two and three words, and one made by a nested call
WordLists ==
    { <<>>, <<"a">>, <<"a", " ", "b">>, <<"a", " ", "b", " ", "c">>, Nested }

\* Texts without a reference: with a space, with a comma, with blanks around
PlainTexts == { <<"x">>, <<"a", " ", "b">>, <<"x", ",", "y">>, <<" ", "x", " ">> }

\* R := $(f ...)
Calling(call) == Assignment(R, <<":", "=">>, call)

FunctionCalls ==
    { WordListCall(s, e, l) : s \in IndexTexts, e \in IndexTexts, l \in WordLists }
    \cup { SubstCall(<<"a">>, <<"a">>, t) : t \in PlainTexts \cup { Nested } }

PatSubstCall(pat, repl, text) ==
    CallOf(kw_patsubst, (((pat \o <<",">>) \o repl) \o <<",">>) \o text)

\* The patterns, replacements and texts handed to patsubst: a word, a prefix
\* with `%`, `%` alone; texts of which every, one or no word matches
Patterns == { <<"a">>, <<"a", "%">>, <<"%">> }
Replacements == { <<"c">>, <<"c", "%">> }
PatTexts == { <<"a", " ", "b">>, <<"a", "b">>, <<"b", " ", "a", "b">> }

PatSubstCalls ==
    { PatSubstCall(p, r, t) : p \in Patterns, r \in Replacements, t \in PatTexts }

\* The makefiles of one line that assigns the result of a function
FunctionFiles == { { Calling(call) } : call \in FunctionCalls \cup PatSubstCalls }

F == <<"F">>
One == <<"1">>
Vv == <<"v">>

\* $(call F,args)
CallF(args) == CallOf(<<"c", "a", "l", "l">>, (F \o <<",">>) \o args)

\* $(foreach v,a b,$(v))
EachV == CallOf(<<"f", "o", "r", "e", "a", "c", "h">>,
                (Vv \o <<",", "a", " ", "b", ",">>) \o Ref(Vv))

\* The lines of a makefile of calls: F made of its first two arguments, global
\* variables named 1 and v, a call and a loop each followed by a reference of
\* the caller, a call whose second argument refers to $(1)
CallLines ==
    { Assignment(F, <<"=">>, (Ref(One) \o Ref(<<"2">>)) \o <<"!">>),
      Assignment(One, <<":", "=">>, <<"g">>),
      Assignment(Vv, <<":", "=">>, <<"w">>),
      Calling(CallF(<<"a">>) \o Ref(One)),
      Calling(EachV \o Ref(Vv)),
      Calling(CallF(<<"a", ",">> \o Ref(One))) }

\* The makefiles read: conditionals, assignments, export directives, rules,
\* function calls
Makefiles ==
    { MakefileLines, AssignLines, ExportLines, RuleFileLines, CallLines } \cup FunctionFiles

\* The number of lines read of a makefile
Budget(lines) == IF lines = MakefileLines THEN MaxLines ELSE MaxDirectives

\* What a global assignment asks for: the variable, its flavor, its text
AskedBy(vs, global, a) ==
    [is_var |-> a.is_var /\ global,
     store |-> a.op \in {"=", ":=", "::="},
     name |-> Trim(ExpandSimple(vs, a.lhs).out),
     flavor |-> IF a.op = "=" THEN "Recursive" ELSE "Simple",
     value |-> IF a.op = "=" THEN Trim(a.rhs) ELSE Trim(ExpandSimple(vs, a.rhs).out)]

Asked(vs, line) ==
    AskedBy(vs, ScanKind(line, 0) = "none",
            ScanAssign(AfterExport(line), 0, <<>>, [lhs |-> <<>>, op |-> ""]))

\* process_lines, one turn of its loop, given what it leaves
LineRead(line, step, asked) ==
    /\ nread' = nread + 1
    /\ in_false' = step.in_false
    /\ found_true' = step.found_true
    /\ state' = step.parsed.state
    /\ vars' = step.parsed.vars
    /\ env' = step.parsed.env
    /\ exit_code' = IF step.parsed.err = "" THEN -1 ELSE ErrCode(step.parsed.err)
    /\ blocks' = BlocksAfter(blocks, vars, line)
    /\ last_line' = <<[text |-> line, handled |-> step.handled, live |-> Live(blocks)]>>
    /\ assigned' = IF step.handled /\ step.parsed.err = "" /\ asked.is_var
                   THEN IF asked.store
                        THEN Put(assigned, asked.name,
                                 [flavor |-> asked.flavor, value |-> asked.value])
                        ELSE Drop(assigned, asked.name)
                   ELSE assigned

\* process_lines, one turn of its loop: the next line of the makefile is read
\* and either skipped (in_false > 0) or processed
ProcessLines ==
    /\ Running /\ ~eof /\ nread < Budget(makefile)
    /\ \E line \in makefile :
          /\ WellNested(blocks, line)
          /\ LineRead(line,
                      IF in_false > 0
                      THEN SkippingStep(state, vars, env, in_false, found_true, line)
                      ELSE ProcessingStep(state, vars, env, found_true, nread + 1, line),
                      Asked(vars, line))
    /\ UNCHANGED <<fs, stack, ti, log, run, mutated, cmdline, makefile, eof, file, logical>>

\* process_specials, what one fragment of `.SILENT` or `.PHONY` does once its
\* prerequisite text x was expanded
Special(st, rule, x) ==
    IF FirstTarget(rule) = DotSilent
    THEN IF rule.kind = "Prereq"
         THEN [st EXCEPT !.silent_targets = @ \o SplitWhitespace(x.out)]
         ELSE [st EXCEPT !.silent = TRUE]
    ELSE IF rule.kind = "Prereq"
         THEN [st EXCEPT !.phony = @ \o SplitWhitespace(x.out)]
         ELSE st

\* Does process_specials expand the text of the fragment
IsSpecial(rule) ==
    /\ rule.targets # <<>>
    /\ FirstTarget(rule) \in {DotSilent, DotPhony}

\* process_specials, the loop over state.rules: [state, err]
RECURSIVE Specials(_, _, _, _)
Specials(rules, i, st, vs) ==
    IF i > Len(rules) THEN [state |-> st, err |-> ""]
    ELSE IF ~IsSpecial(rules[i]) THEN Specials(rules, i + 1, st, vs)
    ELSE IF rules[i].kind = "Prereq" /\ ExpandSimple(vs, rules[i].text).err # ""
    THEN [state |-> st, err |-> ExpandSimple(vs, rules[i].text).err]
    ELSE Specials(rules, i + 1, Special(st, rules[i], ExpandSimple(vs, rules[i].text)), vs)

\* state_machine: what process_specials leaves
SpecialsDone(sp) ==
    /\ state' = sp.state
    /\ exit_code' = IF sp.err = "" THEN -1 ELSE ErrCode(sp.err)

\* state_machine: process_lines met the end of the makefile and returned,
\* process_specials runs
ProcessSpecials ==
    /\ Running /\ ~eof /\ makefile # {}
    /\ eof' = TRUE
    /\ SpecialsDone(Specials(state.rules, 1, state, vars))
    /\ UNCHANGED <<vars, env, fs, stack, ti, log, run, mutated, in_false, found_true, nread,
                   blocks, last_line, cmdline, assigned, makefile, file, logical>>

\* The command lines: no argument, or the variable definition X=1
CmdLines == { <<>>, << <<"X", "=", "1">> >> }

\* main: the variables after the arguments of the command line
RECURSIVE CmdLineVars(_, _)
CmdLineVars(args, vs) ==
    IF args = <<>> THEN vs
    ELSE LET a == CmdLineArg(Head(args))
         IN  CmdLineVars(Tail(args),
                         IF a.is_var THEN Put(vs, a.l, NewVar("Simple", "CmdLine", a.v, FALSE))
                         ELSE vs)

InitParse ==
    /\ \E args \in CmdLines :
          /\ vars = CmdLineVars(args, MainVars)
          /\ cmdline = [n \in DOMAIN CmdLineVars(args, EmptyMap) |->
                           CmdLineVars(args, EmptyMap)[n].value]
    /\ env = [n \in DOMAIN MainVars |-> MainVars[n].value]
    /\ state = StateOf(<<>>, <<>>, PlainFlags, <<>>)
    /\ fs = [f \in Files |-> 0]
    /\ stack = <<>>
    /\ ti = 1
    /\ exit_code = -1
    /\ log = <<>>
    /\ run = 1
    /\ mutated = FALSE
    /\ in_false = 0
    /\ found_true = FALSE
    /\ nread = 0
    /\ blocks = <<>>
    /\ last_line = <<>>
    /\ assigned = EmptyMap
    /\ makefile \in Makefiles
    /\ eof = FALSE
    /\ file = <<>>
    /\ logical = <<>>

NextParse == ProcessLines \/ ProcessSpecials

SpecParse == InitParse /\ [][NextParse]_vars_all

-----------------------------------------------------------------------------
(* read_logical_line *)


\* The byte order mark U+FEFF, one character
BOM == "<feff>"

\* read_logical_line: `while just_spaces && matches!(chars.peek(), Some(' '))`
RECURSIVE SkipSpaces(_)
SkipSpaces(chars) ==
    IF chars # <<>> /\ Head(chars) = " " THEN SkipSpaces(Tail(chars)) ELSE chars

\* read_logical_line, the loop over the characters of one physical line:
\* [line, needs_line, err].  sub_depth is written by the code and never read.
RECURSIVE ScanChars(_, _, _, _, _)
ScanChars(chars, line, in_quote, in_dquote, needs_line) ==
    IF chars = <<>> THEN [line |-> line, needs_line |-> needs_line, err |-> ""]
    ELSE IF ~in_quote /\ ~in_dquote /\ Head(chars) = "$"
    THEN IF Tail(chars) # <<>> /\ chars[2] \in {"(", "{"}
         THEN ScanChars(Tail(Tail(chars)), line \o <<"$", chars[2]>>, in_quote, in_dquote,
                        needs_line)
         ELSE ScanChars(Tail(chars), Append(line, "$"), in_quote, in_dquote, needs_line)
    ELSE IF ~in_quote /\ ~in_dquote /\ Head(chars) \in {"}", ")"}
    THEN ScanChars(Tail(chars), Append(line, Head(chars)), in_quote, in_dquote, needs_line)
    ELSE IF ~in_dquote /\ Head(chars) = "'"
    THEN ScanChars(Tail(chars), Append(line, "'"), ~in_quote, in_dquote, needs_line)
    ELSE IF ~in_quote /\ Head(chars) = "\""
    THEN ScanChars(Tail(chars), Append(line, "\""), in_quote, ~in_dquote, needs_line)
    ELSE IF (in_quote \/ in_dquote) /\ Head(chars) = "\\"
    THEN IF Tail(chars) = <<>>
         THEN [line |-> Append(line, "\\"), needs_line |-> needs_line, err |-> "panic"]
         ELSE ScanChars(Tail(Tail(chars)), line \o <<"\\", chars[2]>>, in_quote, in_dquote,
                        needs_line \/ chars[2] = "\n")
    ELSE IF Head(chars) = "\\"
    THEN IF Tail(chars) = <<>>
         THEN [line |-> line, needs_line |-> needs_line, err |-> ""]
         ELSE ScanChars(Tail(Tail(chars)),
                        IF chars[2] = "\\" THEN Append(line, "\\") ELSE line,
                        in_quote, in_dquote, needs_line \/ chars[2] = "\n")
    ELSE ScanChars(Tail(chars), Append(line, Head(chars)), in_quote, in_dquote, needs_line)

\* read_logical_line: the characters of the physical line tmp_line that are scanned
CharsOf(tmp_line, line, just_spaces) ==
    LET chars == IF line = <<>> THEN tmp_line ELSE Trim(tmp_line)
        nobom == IF StartsWithChar(chars, BOM) THEN Tail(chars) ELSE chars
    IN  IF just_spaces THEN SkipSpaces(nobom) ELSE nobom

\* read_logical_line, the turns of `while needs_line` from the physical lines f
\* on: [line, rest, eof, err]
RECURSIVE ReadLogical(_, _, _)
ReadLogical(f, line, just_spaces) ==
    IF f = <<>> THEN [line |-> line, rest |-> f, eof |-> TRUE, err |-> ""]
    ELSE IF StartsWithChar(Head(f), "#")
    THEN [line |-> line, rest |-> Tail(f), eof |-> FALSE, err |-> ""]
    ELSE LET sc == ScanChars(CharsOf(Head(f), line, just_spaces), line, FALSE, FALSE, FALSE)
         IN  IF sc.err = "" /\ sc.needs_line
             THEN ReadLogical(Tail(f), sc.line, FALSE)
             ELSE [line |-> sc.line, rest |-> Tail(f), eof |-> FALSE, err |-> sc.err]

\* process_lines: what a call of read_logical_line leaves
Returned(r) ==
    /\ file' = r.rest
    /\ logical' = Append(logical, r.line)
    /\ eof' = r.eof
    /\ exit_code' = IF r.err = "" THEN -1 ELSE ErrCode(r.err)

\* process_lines, `while !eof`: one call of read_logical_line
ReadLogicalLine ==
    /\ Running /\ ~eof
    /\ Returned(ReadLogical(file, <<>>, TRUE))
    /\ UNCHANGED <<state, vars, env, fs, stack, ti, log, run, mutated, in_false, found_true,
                   nread, blocks, last_line, cmdline, assigned, makefile>>

\* Physical lines: three that make a continuation, a comment after an
\* assignment, `#` within quotes and within $(...), a comment line, a
\* backslash-newline within quotes
LineA == <<"a", "\\", "\n">>
LineB == <<" ", "b", "\\", "\n">>
LineC == <<"c", "\n">>
LineNote == <<"X", " ", "=", " ", "1", " ", "#", " ", "n", "\n">>
LineQuoted == <<"'", "#", "'", "\n">>
LineGroup == <<"$", "(", "a", "#", "b", ")", "\n">>
LineHash == <<"#", "c", "\n">>
LineDquote == <<"\"", "\\", "\n">>

PhysicalLines ==
    { LineA, LineB, LineC, LineNote, LineQuoted, LineGroup, LineHash, LineDquote }

\* The makefiles of at most MaxPhysical physical lines
Sources == UNION { [1..k -> PhysicalLines] : k \in 1..MaxPhysical }

InitRead ==
    /\ file \in Sources
    /\ logical = <<>>
    /\ eof = FALSE
    /\ state = StateOf(<<>>, <<>>, PlainFlags, <<>>)
    /\ vars = MainVars
    /\ env = [n \in DOMAIN MainVars |-> MainVars[n].value]
    /\ fs = [f \in Files |-> 0]
    /\ stack = <<>>
    /\ ti = 1
    /\ exit_code = -1
    /\ log = <<>>
    /\ run = 1
    /\ mutated = FALSE
    /\ in_false = 0
    /\ found_true = FALSE
    /\ nread = 0
    /\ blocks = <<>>
    /\ last_line = <<>>
    /\ cmdline = EmptyMap
    /\ assigned = EmptyMap
    /\ makefile = {}

NextRead == ReadLogicalLine

SpecRead == InitRead /\ [][NextRead]_vars_all

\* C1: a variable defined on the command line still holds its command-line
\* value after any lines of the makefile, none of which uses `override`, have
\* been parsed.
C1_CmdLineSurvives ==
    \A n \in DOMAIN cmdline : n \in DOMAIN vars /\ vars[n].value = cmdline[n]

\* The last line read is not a conditional directive
IsOrdinary(line) == ~IsIf(line) /\ ~IsElse(line) /\ ~IsEndif(line)

\* C9: a line of the makefile is processed exactly when, in every conditional
\* chain open around it, it lies in the one branch selected for the chain: the
\* first branch whose condition holds, or the plain `else` when none holds.
C9_OneBranch ==
    (last_line # <<>> /\ Running /\ IsOrdinary(last_line[1].text))
    => (last_line[1].handled <=> last_line[1].live)

\* C10: every variable assigned globally has the flavor and the text asked for
\* by the last assignment applied to it, and no Simple cell holds text that
\* still needs expansion.
C10_LastAssignment ==
    /\ \A n \in DOMAIN assigned :
          /\ n \in DOMAIN vars
          /\ vars[n].flavor = assigned[n].flavor
          /\ vars[n].value = assigned[n].value
    /\ \A n \in DOMAIN vars : vars[n].flavor = "Simple" => ~Contains(vars[n].value, "$")

\* The line read last was processed and the process goes on
Processed(line) ==
    /\ last_line # <<>> /\ last_line[1].text = line /\ last_line[1].handled
    /\ Running

\* Y is a Recursive variable defined in terms of X, X holds plain text
DefinedLater ==
    /\ Y \in DOMAIN vars /\ vars[Y].flavor = "Recursive" /\ vars[Y].value = Later
    /\ X \in DOMAIN vars /\ vars[X].flavor = "Simple"

\* C11: a reference to a Recursive variable defined in terms of another
\* variable sees the value that variable holds when the reference is expanded,
\* not the one it held when the Recursive variable was defined: with
\* `Y = $(X) w`, the line `R := $(Y)` leaves in R the text X holds now
\* followed by ` w`.
C11_LateBinding ==
    (Processed(ReadLine) /\ DefinedLater)
    => (R \in DOMAIN vars /\ vars[R].value = Trim(vars[X].value \o <<" ", "w">>))

\* Y was defined and then read while X held `i`
C11_Witness ==
    /\ Processed(ReadLine) /\ DefinedLater
    /\ vars[X].value = <<"i">>
    /\ vars[R].value = <<"i", " ", "w">>

\* The assignment a line makes, if it is one
AssignmentOf(line) == ScanAssign(AfterExport(line), 0, <<>>, [lhs |-> <<>>, op |-> ""])

\* What `name += rhs` is to leave in the cell stored under name
AppendedAsStated(name, rhs) ==
    /\ name \in DOMAIN vars'
    /\ IF name \notin DOMAIN vars
       THEN vars'[name].flavor = "Recursive" /\ vars'[name].value = Trim(rhs)
       ELSE /\ vars'[name].flavor = vars[name].flavor
            /\ vars'[name].value =
                  (vars[name].value \o <<" ">>)
                  \o Trim(IF vars[name].flavor = "Recursive" THEN rhs
                          ELSE ExpandSimple(vars, rhs).out)

\* C12: `name += rhs` on a Recursive variable appends a space and the
\* unexpanded rhs and leaves it Recursive; on a Simple variable it appends a
\* space and the expansion of rhs; on an undefined name it creates a Recursive
\* variable holding rhs.
C12_Append ==
    [][(/\ nread' = nread + 1
        /\ last_line'[1].handled
        /\ exit_code' = -1
        /\ AssignmentOf(last_line'[1].text).op = "+=")
       => AppendedAsStated(Trim(AssignmentOf(last_line'[1].text).lhs),
                           AssignmentOf(last_line'[1].text).rhs)]_vars_all

\* C13: no variable is both exported and explicitly unexported.
C13_ExportedOrUnexported ==
    \A n \in DOMAIN vars : ~(vars[n].exported /\ vars[n].unexported)

\* C14: the environment follows the variables: every exported variable has an
\* environment entry equal to its stored text, and a variable left unexported
\* by `unexport` has no environment entry.
C14_EnvFollows ==
    \A n \in DOMAIN vars :
       /\ vars[n].exported => (n \in DOMAIN env /\ env[n] = vars[n].value)
       /\ (vars[n].unexported /\ ~vars[n].exported) => n \notin DOMAIN env

\* X was assigned in the makefile, exported and then appended to
C14_Witness ==
    /\ Processed(Assignment(X, <<"+", "=">>, <<"w">>))
    /\ X \in DOMAIN vars /\ vars[X].exported /\ vars[X].origin = "File"
    /\ env[X] = <<"h", " ", "w">>

\* The rule lines of `.DEFAULT`, and the names the first of them lists
DefaultLines ==
    { i \in 1..Len(state.rules) :
        state.rules[i].kind = "Prereq" /\ FirstTarget(state.rules[i]) = DotDefault }

DefaultList ==
    IF DefaultLines = {} THEN <<>>
    ELSE SplitWhitespace(state.rules[CHOOSE i \in DefaultLines : TRUE].text)

\* The rules whose first target does not begin with a dot, and the first
\* target of the first of them
PlainRules ==
    { i \in 1..Len(state.rules) : ~StartsWithChar(FirstTarget(state.rules[i]), ".") }

FirstPlain ==
    IF PlainRules = {} THEN <<>>
    ELSE <<FirstTarget(state.rules[CHOOSE i \in PlainRules : \A j \in PlainRules : i <= j])>>

\* C15: when no target is requested, the targets made are the prerequisites
\* listed by `.DEFAULT` if it lists any, and otherwise the first target of the
\* first rule whose name does not begin with a dot (makefiles with at most one
\* `.DEFAULT` line).
C15_DefaultGoal ==
    (state.targets_to_make = <<>> /\ Cardinality(DefaultLines) <= 1)
    => TargetsToMake = IF DefaultList # <<>> THEN DefaultList ELSE FirstPlain

\* The words of command c of the record f, when it comes from the recipe line
\* `x REF`
FromRecipe(c, ref) == state.rules[c.line].text = Recipe(<<"x", " ">> \o ref)

\* C16: while the recipes of target T run, `$@` expands to T and `$<` to the
\* first prerequisite of T, or to nothing when T has none.
C16_Automatic ==
    \A k \in 1..Len(stack) :
       stack[k].pc = "run" =>
          \A i \in 1..Len(stack[k].expanded) :
             /\ FromRecipe(stack[k].expanded[i], <<"$", "@">>)
                   => SplitWhitespace(stack[k].expanded[i].text) = <<<<"x">>, stack[k].name>>
             /\ FromRecipe(stack[k].expanded[i], <<"$", "<">>)
                   => SplitWhitespace(stack[k].expanded[i].text) =
                         IF stack[k].prerequisites = <<>> THEN <<<<"x">>>>
                         ELSE <<<<"x">>, stack[k].prerequisites[1]>>

\* C17: with --dry-run set no command is launched.
C17_DryRun ==
    state.dryrun => \A j \in 1..Len(log) : log[j].ev # "launch"

\* Echo is suppressed for the command of recipe line k of target t
Suppressed(t, k) ==
    \/ state.silent
    \/ Contains(state.silent_targets, t)
    \/ StartsWithChar(AfterDash(Trim(state.rules[k].text)), "@")

\* The command launched at place j of the log was printed just before
Printed(j) ==
    j > 1 /\ log[j - 1].ev = "echo" /\ log[j - 1].t = log[j].t /\ log[j - 1].k = log[j].k

\* C18: a command is printed before it is launched exactly when --dry-run is
\* set or echo is not suppressed for it (`@` prefix, target under .SILENT,
\* process-wide silent flag).
C18_Echo ==
    \A j \in 1..Len(log) :
       log[j].ev = "launch"
       => (Printed(j) <=> (state.dryrun \/ ~Suppressed(log[j].t, log[j].k)))

\* C19: with --always-make set, the recipes of every visited target that has
\* recipes are run, whatever the files.
C19_AlwaysMake ==
    [][ (DecideStep /\ state.always_make /\ HasRecipe(Top.name))
        => (stack' # <<>> /\ Len(stack') = Len(stack) /\ Top'.pc = "run") ]_vars_all

\* The invocation reported that target t, which is not phony, has no rule
NoRuleReported ==
    \E j \in 1..Len(log) :
       /\ log[j].run = run /\ log[j].ev \in {"no_rule", "no_rule_needed_by"}
       /\ ~Phony(log[j].t)

\* C20: an invocation that met a target with no rule, not phony and with no
\* file, whether requested or a prerequisite, reports it and ends with exit
\* code 130.
C20_NoRule ==
    /\ (exit_code >= 0 /\ NoRuleReported) => exit_code = 130
    /\ \A t \in Files :
          (/\ exit_code >= 0 /\ Contains(state.processed, t)
           /\ ~HasRules(t) /\ ~Phony(t) /\ Missing(t))
          => NoRuleReported

\* process_target was entered for n and has not returned
InProgress(n) == \E k \in 1..Len(stack) : stack[k].name = n

\* The next prerequisite of the record on top is a target in progress
CycleStep ==
    /\ Running /\ stack # <<>>
    /\ Top.pc = "prereqs" /\ Top.pi <= Len(Top.prerequisites)
    /\ InProgress(Top.prerequisites[Top.pi])

\* C21: when update reaches a target that is in progress, a circular-dependency
\* warning is issued, the edge is treated as satisfied and the run goes on with
\* the next prerequisite.
C21_CycleWarned ==
    [][ CycleStep
        => /\ \E j \in (Len(log) + 1)..Len(log') : log'[j].ev = "circular_dependency"
           /\ exit_code' = -1
           /\ Len(stack') = Len(stack) /\ Top'.pi = Top.pi + 1 ]_vars_all

\* The rule lines of name n in state.rules
SpecialLines(n) ==
    { i \in 1..Len(state.rules) :
        state.rules[i].kind = "Prereq" /\ FirstTarget(state.rules[i]) = n }

\* The names listed by the rule lines of n
NamedBy(n) == UNION { Range(SplitWhitespace(state.rules[i].text)) : i \in SpecialLines(n) }

\* The lines of a: they come from `a: $(V)`
LinesOfA == SpecialLines(A)

\* C22: the prerequisites of a rule line are expanded after parsing has
\* finished: once the makefile is read, the prerequisite list of `a: $(V)` is
\* the value V has then, not the one it had when the rule line was read.
C22_DeferredPrereqs ==
    (eof /\ Running)
    => \A i \in LinesOfA :
          SplitWhitespace(state.rules[i].text) = SplitWhitespace(ExpandSimple(vars, Ref(V)).out)

\* C25: after process_specials, a `.SILENT` rule line without prerequisites
\* has set the process-wide silent flag, and the silent and phony targets are
\* exactly the names listed by the `.SILENT` and `.PHONY` rule lines.
C25_Specials ==
    (eof /\ Running)
    => /\ (\E i \in SpecialLines(DotSilent) : SplitWhitespace(state.rules[i].text) = <<>>)
             => state.silent
       /\ Range(state.silent_targets) = NamedBy(DotSilent)
       /\ Range(state.phony) = NamedBy(DotPhony)

\* C30: a line that begins with a tab, read while lines are processed, is
\* attached as a recipe to the targets of the most recent rule line when a
\* rule is open, and ends the process with exit code 2 when none is.
C30_RecipeLine ==
    [][ (nread' = nread + 1 /\ in_false = 0 /\ StartsWithChar(last_line'[1].text, "\t"))
        => IF state.in_rule
           THEN /\ exit_code' = -1
                /\ state'.rules = Append(state.rules,
                                         RecipieRule(state.rules[Len(state.rules)].targets,
                                                     last_line'[1].text, nread + 1))
           ELSE exit_code' = 2 ]_vars_all

\* No command was launched in the current invocation
NoneLaunched == \A j \in 1..Len(log) : log[j].run = run => log[j].ev # "launch"

\* Every target wanted is in the files and has a file unless it is phony
AllBuilt == \A n \in Wanted : n \in Files /\ (Phony(n) \/ ~Missing(n))

\* C29: when the invocation has ended without launching a command because
\* everything wanted is already built, and the process is not silent, each
\* requested target T that has rules was reported as `'T' is up to date.`
C29_UpToDate ==
    (exit_code = 0 /\ ~state.silent /\ NoneLaunched /\ AllBuilt)
    => \A t \in Range(TargetsToMake) :
          HasRules(t) => \E j \in 1..Len(log) : Happened(j, run, "up_to_date", t)

-----------------------------------------------------------------------------
(* C23, C24: logical lines *)

\* The physical line ends with a backslash and a newline
Continues(l) == Len(l) >= 2 /\ l[Len(l) - 1] = "\\" /\ l[Len(l)] = "\n"

\* The logical line the physical lines f begin with: every line that ends with
\* backslash-newline is followed by the next one, without its leading blanks
RECURSIVE JoinedLine(_, _)
JoinedLine(f, first) ==
    IF f = <<>> THEN <<>>
    ELSE LET l == IF first THEN Head(f) ELSE TrimStart(Head(f))
         IN  IF Continues(Head(f))
             THEN SubSeq(l, 1, Len(l) - 2) \o JoinedLine(Tail(f), FALSE)
             ELSE l

\* The number of physical lines that logical line is made of
RECURSIVE JoinedCount(_)
JoinedCount(f) ==
    IF f = <<>> THEN 0
    ELSE IF Continues(Head(f)) THEN 1 + JoinedCount(Tail(f)) ELSE 1

ContinuationLines == { LineA, LineB, LineC }

\* A call of read_logical_line has returned
LineReturned == Len(logical') = Len(logical) + 1

\* C23: a logical line is the first physical line joined with every following
\* line for as long as the preceding one ends in backslash-newline, any number
\* of them, each continuation without its leading blanks and the
\* backslash-newline left out; the reader is left after the last joined line
C23_Continuation ==
    [][(LineReturned /\ \A i \in 1..Len(file) : file[i] \in ContinuationLines)
          => /\ Trim(logical'[Len(logical')]) = Trim(JoinedLine(file, TRUE))
             /\ file' = SubSeq(file, JoinedCount(file) + 1, Len(file))]_vars_all

\* The text of a line before its comment: the first `#` that is neither
\* within $(...) or ${...} nor within quotes
RECURSIVE Uncommented(_, _, _, _)
Uncommented(l, depth, quote, dquote) ==
    IF l = <<>> THEN <<>>
    ELSE IF Head(l) = "#" /\ depth = 0 /\ ~quote /\ ~dquote THEN <<>>
    ELSE <<Head(l)>> \o
         Uncommented(Tail(l),
                     IF quote \/ dquote THEN depth
                     ELSE IF Head(l) \in {"(", "{"} THEN depth + 1
                     ELSE IF Head(l) \in {")", "}"} /\ depth > 0 THEN depth - 1
                     ELSE depth,
                     IF Head(l) = "'" /\ ~dquote THEN ~quote ELSE quote,
                     IF Head(l) = "\"" /\ ~quote THEN ~dquote ELSE dquote)

CommentLines == { LineNote, LineQuoted, LineGroup, LineHash }

\* C24: a `#` outside $(...) and outside quotes starts a comment that is left
\* out of the logical line; within them it is kept
C24_Comment ==
    [][(LineReturned /\ file # <<>> /\ Head(file) \in CommentLines)
          => Trim(logical'[Len(logical')]) =
                Trim(Uncommented(Head(file), 0, FALSE, FALSE))]_vars_all

-----------------------------------------------------------------------------
(* C26, C27, C28: the arguments of functions *)

\* The line `R := call` was read last and processed, whether or not the
\* process survived it
Called(call) ==
    last_line # <<>> /\ last_line[1].text = Calling(call) /\ last_line[1].handled

\* The process goes on and R holds the text
Yields(text) == Running /\ R \in DOMAIN vars /\ vars[R].value = text

\* C26: a comma within a nested $(...) belongs to the argument that holds it:
\* with $(subst c,d,c) as its last argument, subst and wordlist work on the
\* text d
C26_DepthZero ==
    /\ Called(SubstCall(<<"a">>, <<"a">>, Nested)) => Yields(<<"d">>)
    /\ Called(WordListCall(NumberText(1), NumberText(1), Nested)) => Yields(<<"d">>)

\* C27: $(wordlist s,e,list) with s >= 1 and e < s is the empty text for every
\* list, without a fatal error or a crash; with s = 0 or an index that is no
\* number the call is fatal
C27_WordList ==
    \A l \in WordLists :
       /\ \A s \in 1..MaxIndex : \A e \in 0..(s - 1) :
             Called(WordListCall(NumberText(s), NumberText(e), l)) => Yields(<<>>)
       /\ \A e \in IndexTexts :
             Called(WordListCall(NumberText(0), e, l)) => exit_code = 2
       /\ \A i \in IndexTexts :
             /\ Called(WordListCall(X, i, l)) => exit_code = 2
             /\ (i # NumberText(0) /\ Called(WordListCall(i, X, l))) => exit_code = 2

\* C28: $(subst a,a,S) is S for every text S, with commas, spaces or blanks
\* around it (the assignment to R drops the blanks around what it stores)
C28_SubstIdentity ==
    \A t \in PlainTexts : Called(SubstCall(<<"a">>, <<"a">>, t)) => Yields(Trim(t))

-----------------------------------------------------------------------------
(* C31: the end of the makefile within a conditional *)

\* C31: when the end of the makefile is met while a conditional is open,
\* whether its branch was processed or skipped, the process ends with code 2
C31_MissingEndif == (eof /\ blocks # <<>>) => exit_code = 2

-----------------------------------------------------------------------------
(* C32: phony names without a rule *)

\* C32: a phony name that is the target of no rule is updated without a
\* `No rule to make target` error, as a requested target and as a prerequisite
C32_PhonyWithoutRule ==
    \A j \in 1..Len(log) :
       log[j].ev \in {"no_rule", "no_rule_needed_by"}
          => ~(Phony(log[j].t) /\ ~HasRules(log[j].t))

-----------------------------------------------------------------------------
(* C33: the bindings of a frame *)

\* The record f binds the name n to a text of these words
BindsWords(f, n, words) == n \in DOMAIN f.vars /\ SplitWhitespace(f.vars[n].value) = words

\* The words command i of the record f is made of, when it comes from the
\* recipe line `x REF`
ExpandsTo(f, i, ref, words) ==
    FromRecipe(f.expanded[i], ref) => SplitWhitespace(f.expanded[i].text) = <<<<"x">>>> \o words

\* C33: the bindings made by a call belong to it.  In every call of
\* process_target in progress, whatever calls for prerequisites have returned
\* to it, `@` is bound to its own target T and `?` and `<` to its own
\* prerequisites, and every other name is bound as it is globally; a recipe
\* `x $@` of T is expanded to `x T`, and so is `$@` after a foreach whose
\* variable is `@` and after a call have returned, `$(1)` being unbound then
C33_FrameScoped ==
    \A k \in 1..Len(stack) :
       /\ BindsWords(stack[k], <<"@">>, <<stack[k].name>>)
       /\ BindsWords(stack[k], <<"?">>, stack[k].prerequisites)
       /\ BindsWords(stack[k], <<"<">>, stack[k].prerequisites)
       /\ \A n \in DOMAIN vars : n \in DOMAIN stack[k].vars /\ stack[k].vars[n] = vars[n]
       /\ stack[k].pc = "run" =>
             \A i \in 1..Len(stack[k].expanded) :
                /\ ExpandsTo(stack[k], i, <<"$", "@">>, <<stack[k].name>>)
                /\ ExpandsTo(stack[k], i, EachAt, <<B, C, stack[k].name>>)
                /\ ExpandsTo(stack[k], i, CallM, <<<<"m">>, stack[k].name>>)

\* The recipe of a target that ends with `$@` after a loop and the one that
\* ends with it after a call are expanded after calls for two prerequisites
\* have returned
C33_Witness ==
    /\ stack # <<>> /\ Top.pc = "run" /\ Top.pi = 3 /\ Len(Top.expanded) = 2
    /\ FromRecipe(Top.expanded[1], EachAt)
    /\ FromRecipe(Top.expanded[2], CallM)

\* The text a global variable holds, nothing when there is none
ValueOf(n) == IF n \in DOMAIN vars THEN vars[n].value ELSE <<>>

\* What $(call F,x,y) is when the arguments are the texts x and y
FOf(x, y) == IF F \in DOMAIN vars THEN (x \o y) \o <<"!">> ELSE <<>>

\* After $(call F,a) and after $(foreach v,a b,$(v)) have returned, $(1) and
\* $(v) are in the caller what they were before
FunctionScoped ==
    /\ Called(CallF(<<"a">>) \o Ref(One)) => Yields(Trim(FOf(<<"a">>, <<>>) \o ValueOf(One)))
    /\ Called(EachV \o Ref(Vv)) => Yields(Trim(<<"a", " ", "b">> \o ValueOf(Vv)))

\* A call and a loop have returned where the caller binds 1 and v
FunctionScoped_Witness ==
    /\ F \in DOMAIN vars /\ ValueOf(One) = <<"g">> /\ ValueOf(Vv) = <<"w">>
    /\ ValueOf(R) \in { <<"a", "!", "g">>, <<"a", " ", "b", "w">> }

-----------------------------------------------------------------------------
(* C38: the arguments of a call *)

\* C38: the arguments of a call are expanded in the bindings of the caller:
\* $(1) within the second argument of $(call F,a,$(1)) is what $(1) is in the
\* caller, never the first argument a
C38_ArgsInCaller ==
    Called(CallF(<<"a", ",">> \o Ref(One))) => Yields(Trim(FOf(<<"a">>, ValueOf(One))))

-----------------------------------------------------------------------------
(* C34: the fragments of a double-colon target *)

\* Rule line i of target n alone makes n out of date: the file of n is
\* missing, or a prerequisite listed by that line is phony, missing or newer
FragmentOutOfDate(n, i) ==
    \/ Phony(n)
    \/ Missing(n)
    \/ \E p \in Range(SplitWhitespace(state.rules[i].text)) :
          Phony(p) \/ Missing(p) \/ fs[p] > fs[n]

\* C34: when the recipes of a target declared by two `::` rule lines are
\* about to run, the recipe lines of a rule line are among them exactly when
\* the prerequisites of that rule line, or the absence of the file, make the
\* target out of date
C34_DoubleColon ==
    (/\ stack # <<>> /\ Top.pc = "run" /\ Top.ci = 1
     /\ ~state.always_make /\ Twice(Top.name, TRUE))
    => \A i \in RuleLines(Top.name) :
          (Body(Top.name, i) \subseteq { Top.expanded[c].line : c \in 1..Len(Top.expanded) })
             <=> FragmentOutOfDate(Top.name, i)

\* The names of the makefile and of the request: the targets requested and
\* the prerequisites listed by the rule lines
Names ==
    Range(TargetsToMake)
    \cup UNION { Range(SplitWhitespace(state.rules[i].text)) :
                    i \in { j \in 1..Len(state.rules) : state.rules[j].kind = "Prereq" } }

\* C35: for every set of rules, cyclic ones and a target that lists itself
\* included, the body of update is entered at most once per target name in a
\* run: the names entered are pairwise distinct and are names of the makefile
\* or of the request, and the calls in progress are calls for distinct names
\* among them, so the depth of the recursion is within the number of names.
C35_Bounded ==
    /\ \A i, j \in 1..Len(state.processed) :
          state.processed[i] = state.processed[j] => i = j
    /\ Range(state.processed) \subseteq Names
    /\ \A i, j \in 1..Len(stack) : stack[i].name = stack[j].name => i = j
    /\ \A k \in 1..Len(stack) : Contains(state.processed, stack[k].name)
    /\ \A j \in 1..Len(log) :
          (log[j].run = run /\ log[j].ev = "enter") => Contains(state.processed, log[j].t)

\* A run over a graph where a lists itself as a prerequisite came to its end
C35_Witness ==
    /\ exit_code = 0 /\ stack = <<>>
    /\ A \in Succ(A) /\ A \in Wanted
    /\ \E j \in 1..Len(log) : Happened(j, 1, "enter", A)

\* C36: whenever in_rule is true the list of rule fragments is not empty and
\* its last fragment is a prerequisite or a recipe fragment, so a tab line
\* accepted while in_rule holds always finds the targets to attach to.
C36_InRule ==
    state.in_rule
    => /\ state.rules # <<>>
       /\ state.rules[Len(state.rules)].kind \in {"Prereq", "Recipie"}

\* A tab line was accepted after the target-scoped assignment and a rule line
\* had been read
C36_Witness ==
    /\ state.in_rule /\ exit_code = -1
    /\ last_line # <<>> /\ StartsWithChar(last_line[1].text, "\t")
    /\ state.rules[Len(state.rules)].kind = "Recipie"
    /\ \E i \in 1..Len(state.rules) : state.rules[i].kind = "Var"

\* C37: the plain `else` of a conditional block whose conditions were all
\* false, read while the enclosing blocks are in their selected branches,
\* switches the processing of lines on, whatever blocks were closed before it.
C37_ElseOfFalseBlock ==
    (/\ last_line # <<>> /\ Running
     /\ IsPlainElse(last_line[1].text)
     /\ blocks # <<>> /\ Live(blocks))
    => in_false = 0

-----------------------------------------------------------------------------
(* C39: patsubst as a map over words *)

\* Does the word match the pattern: a pattern with `%` by its prefix and
\* suffix, a pattern without by equality
Matches(w, pat) ==
    IF Contains(pat, "%")
    THEN \E k \in 0..Len(w) :
            \E stem \in { SubSeq(w, i, i + k - 1) : i \in 1..(Len(w) - k + 1) } :
                w = (SplitOnce(pat, <<"%">>, <<>>).before \o stem)
                        \o SplitOnce(pat, <<"%">>, <<>>).after
    ELSE w = pat

\* C39: patsubst maps word by word: its result has one word per word of the
\* text, and a word that does not match the pattern is passed through as it is.
C39_WordWise ==
    \A p \in Patterns, r \in Replacements, t \in PatTexts :
        Called(PatSubstCall(p, r, t))
        => /\ Running /\ R \in DOMAIN vars
           /\ Len(SplitWhitespace(vars[R].value)) = Len(SplitWhitespace(t))
           /\ \A i \in 1..Len(SplitWhitespace(t)) :
                 ~Matches(SplitWhitespace(t)[i], p)
                 => SplitWhitespace(vars[R].value)[i] = SplitWhitespace(t)[i]

-----------------------------------------------------------------------------
(* C40: target-scoped assignments *)

\* The texts assigned to the name v for the target n by lines `n: v = text`
ScopedTo(n, v) ==
    { state.rules[i].text : i \in { j \in 1..Len(state.rules) :
                                      /\ state.rules[j].kind = "Var"
                                      /\ Contains(state.rules[j].targets, n)
                                      /\ state.rules[j].lhs = v } }

\* C40: an assignment `T: M = x` is in effect while the recipes of T are
\* expanded: `$(M)` in a recipe of T expands to x, and in the recipe of a
\* target with no such assignment to the global value of M, which is unchanged.
C40_TargetScoped ==
    /\ vars[<<"M">>] = MainVars[<<"M">>]
    /\ \A k \in 1..Len(stack) :
          stack[k].pc = "run" =>
             \A i \in 1..Len(stack[k].expanded) :
                ExpandsTo(stack[k], i, RefM,
                          IF ScopedTo(stack[k].name, <<"M">>) = {}
                          THEN <<vars[<<"M">>].value>>
                          ELSE <<Trim(CHOOSE x \in ScopedTo(stack[k].name, <<"M">>) : TRUE)>>)

=============================================================================
